---- MODULE Spec2Model ----
(***************************************************************************)
(* Model of the news aggregation core of Agora-Logos: the NewsClient       *)
(* (provider registry, query cache, pagination), the providers it calls    *)
(* and the ArticleData normalizer.                                         *)
(*                                                                         *)
(* JavaScript strings are sequences of one-character strings.  The value   *)
(* undefined/null of an optional argument is the one-element sequence      *)
(* Undefined, which is no string of characters.                            *)
(***************************************************************************)
EXTENDS Integers, Sequences, FiniteSets, TLC

\* ------------------------------------------------------------------ bounds

\* concurrent searchNews/getTopHeadlines calls suspended at their await
MaxInFlight == 2
\* articles the upstream has for a query
MaxAvail == 8
\* versions of the upstream content
MaxVersion == 2
\* largest page number requested
MaxPage == 3
\* largest explicit limit requested
MaxLimit == 5
\* last reading of the clock, in milliseconds
MaxClock == 1
\* cache entries in the runs over the options
MaxEntries == 2

\* documents the store of the analysed articles is given in one run
MaxDocs == 3
\* invocations of mongoose.connect in one run
MaxAttempts == 2
\* largest maxRetries an LLMClient is constructed with
MaxRetries == 3

\* ------------------------------------------------------- program constants

\* maxRetries = 3 of the LLMClient constructor
DefaultMaxRetries == 3

\* fetch size for the gnews free plan
GNewsFetchSize == 10
\* default of the limit option
DefaultLimit == 10
\* default of the page option
DefaultPage == 1
\* JavaScript null in a numeric field (nextPage, previousPage)
NullPage == -1
\* longest string _sanitizeString keeps
MaxStringLength == 5000

\* ------------------------------------------------------------------ strings

Undefined == <<"undefined">>
\* the characters String.prototype.trim and the class \s take for whitespace
Whitespace == {" ", "\t", "\n", "\r"}
DigitChars == <<"0", "1", "2", "3", "4", "5", "6", "7", "8", "9">>

IsDigit(ch) == \E d \in 1..10 : DigitChars[d] = ch
DigitVal(ch) == (CHOOSE d \in 1..10 : DigitChars[d] = ch) - 1

RECURSIVE TrimStart(_)
TrimStart(s) ==
  IF s # <<>> /\ Head(s) \in Whitespace THEN TrimStart(Tail(s)) ELSE s

RECURSIVE TrimEnd(_)
TrimEnd(s) ==
  IF s # <<>> /\ s[Len(s)] \in Whitespace
  THEN TrimEnd(SubSeq(s, 1, Len(s) - 1))
  ELSE s

\* String.prototype.trim
Trim(s) == TrimEnd(TrimStart(s))

RECURSIVE DigitsValue(_, _)
DigitsValue(s, acc) ==
  IF s # <<>> /\ IsDigit(Head(s))
  THEN DigitsValue(Tail(s), 10 * acc + DigitVal(Head(s)))
  ELSE acc

\* parseInt(x): leading whitespace, an optional sign, then the longest prefix
\* of decimal digits; NaN when there is no digit.
ParseInt(s) ==
  LET t == TrimStart(s)
      signed == t # <<>> /\ Head(t) \in {"-", "+"}
      u == IF signed THEN Tail(t) ELSE t
  IN IF u = <<>> \/ ~IsDigit(Head(u))
     THEN [nan |-> TRUE, v |-> 0]
     ELSE [nan |-> FALSE,
           v |-> IF signed /\ Head(t) = "-"
                 THEN 0 - DigitsValue(u, 0)
                 ELSE DigitsValue(u, 0)]

\* String(n) for 0 <= n <= 99
Numeral(n) ==
  IF n < 10 THEN <<DigitChars[n + 1]>>
  ELSE <<DigitChars[(n \div 10) + 1], DigitChars[(n % 10) + 1]>>

Min(a, b) == IF a < b THEN a ELSE b
Max(a, b) == IF a > b THEN a ELSE b

\* Math.ceil(a / b) for a >= 0, b >= 1
CeilDiv(a, b) == (a + b - 1) \div b

\* Array.prototype.slice(start, end) on a 0-based array held as a sequence
Slice(arr, start, end) ==
  SubSeq(arr, Min(start, Len(arr)) + 1, Min(end, Len(arr)))

\* ---------------------------------------------------------------- inputs

\* query arguments: missing, empty, blank, and a text with and without
\* surrounding whitespace
Queries == {Undefined, <<>>, <<" ">>, <<"a">>, <<" ", "a", " ">>}

ValidQueries == {q \in Queries : q # Undefined /\ Trim(q) # <<>>}

\* page arguments: absent (page 1), a numeral, and three that are refused
PageInputs == {Undefined, <<"2">>, <<"0">>, <<"-", "1">>, <<"x">>}

\* limit arguments: absent (limit 10), a numeral, and two that are refused
LimitInputs == {Undefined, Numeral(MaxLimit), <<"0">>, <<"x">>}

\* the arguments of the runs in which calls overlap
RaceQueries == {<<" ", "a", " ">>}
RacePageInputs == {Undefined, <<"2">>}
RaceLimitInputs == {Numeral(MaxLimit)}

\* the arguments of the runs in which no calls overlap: pages 1..MaxPage, one
\* of them written with a suffix parseInt skips, and the limits 1, 2,
\* MaxLimit and the default
SeqQueries == {<<"a">>}
SeqPageInputs == {Undefined, <<"2", "x">>} \cup {Numeral(n) : n \in 3..MaxPage}
SeqLimitInputs == {Undefined, <<"1">>, <<"2">>, Numeral(MaxLimit)}

\* JavaScript null/undefined where a provider name is expected
Null == "null"

\* ProviderNames of the enums module
GNEWS == "gnews"
NEWSAPI == "newsapi"
GUARDIAN == "guardian"

ProviderInputs == {Null, GNEWS, NEWSAPI, GUARDIAN}

\* the remaining search options, as the ordered list of the name/value pairs
\* of the options object
SearchOptionInputs == {<<<<"lang", "en">>>>}

\* remaining options of getTopHeadlines
HeadlineOptionInputs == {<<>>}

\* search options in the runs over the options: none, sortBy and searchIn
\* inside and outside their enums, and lang and sortBy written in either order
EnumOptionInputs ==
  {<<>>,
   <<<<"sortBy", "date">>>>, <<<<"sortBy", "newest">>>>,
   <<<<"searchIn", "title">>>>, <<<<"searchIn", "body">>>>,
   <<<<"lang", "en">>, <<"sortBy", "date">>>>,
   <<<<"sortBy", "date">>, <<"lang", "en">>>>}

\* headline options in the runs over the options: the category absent, inside
\* and outside its enum
CategoryOptionInputs ==
  {<<>>, <<<<"category", "sports">>>>, <<<<"category", "weather">>>>}

\* ------------------------------------------------------------------- state

VARIABLES
  providers,        \* NewsClient.providers: registered names, insertion order
  defaultProvider,  \* NewsClient.defaultProvider
  articleCache,     \* NewsClient.articleCache: cache key -> entry
  calls,            \* calls suspended at "await newsProvider...."
  response,         \* what the step just taken returned or threw to its caller
  fetched,          \* per key: successful provider fetches since the last clear
  served,           \* per key: the articles the first response since the last
                    \* clear was cut from
  articleData,      \* the ArticleData objects constructed last, newest first,
                    \* each with the payload it was constructed from
  agent,            \* an AgentSynopsis, the articles stored, and its last answer
  env               \* process.env: the API keys the client was constructed with

clientVars ==
  <<env, providers, defaultProvider, articleCache, calls, response, fetched,
    served>>

vars ==
  <<providers, defaultProvider, articleCache, calls, response, fetched, served,
    articleData, agent, env>>

Calls == 1..MaxInFlight

\* Array.from(this.providers.keys())
getAvailableProviders == providers

Registered(name) == \E i \in 1..Len(providers) : providers[i] = name

\* the key made of the query as it was given
CacheKeyUntrimmed(query, providerName, searchOptions) ==
  [query |-> query, provider |-> providerName, options |-> searchOptions]

\* JSON.stringify({query: query.trim(), provider: newsProvider.name, ...searchOptions}):
\* the members in the order written, so the serialization is this triple
CacheKey(query, providerName, searchOptions) ==
  [query |-> Trim(query), provider |-> providerName, options |-> searchOptions]

AllKeys ==
  {CacheKey(q, p, o) : q \in ValidQueries, p \in {GNEWS, NEWSAPI},
                       o \in SearchOptionInputs \cup EnumOptionInputs}

NoKey == [query |-> <<>>, provider |-> Null, options |-> <<>>]

\* the entry created for a key that has none
EmptyEntry ==
  [articles |-> <<>>, totalArticles |-> 0, lastFetchSize |-> 0, hasMore |-> TRUE]

\* ------------------------------------------------------------------ errors

\* statusCode of an Error that is no NewsError
NoStatus == 0

NoError ==
  [name |-> "none", statusCode |-> NoStatus, value |-> <<>>,
   providerName |-> Null, availableProviders |-> <<>>,
   originalError |-> "none", message |-> {}]

\* new InvalidQueryError(query, reason): a ValidationError (400) with .query
InvalidQueryError(query) ==
  [name |-> "InvalidQueryError", statusCode |-> 400, value |-> query,
   providerName |-> Null, availableProviders |-> <<>>,
   originalError |-> "none", message |-> {}]

ProviderNotFoundError(providerName, availableProviders) ==
  [name |-> "ProviderNotFoundError", statusCode |-> 404, value |-> <<>>,
   providerName |-> providerName, availableProviders |-> availableProviders,
   originalError |-> "none",
   message |-> {"Provider '' not found", "not found"}]

NoProvidersAvailableError ==
  [name |-> "NoProvidersAvailableError", statusCode |-> 503, value |-> <<>>,
   providerName |-> Null, availableProviders |-> <<>>,
   originalError |-> "none", message |-> {}]

ExternalAPIError(providerName) ==
  [name |-> "ExternalAPIError", statusCode |-> 502, value |-> <<>>,
   providerName |-> providerName, availableProviders |-> <<>>,
   originalError |-> "Error", message |-> {}]

\* new ValidationError("Invalid <key> option. Must be one of: ...")
ValidationError(key) ==
  [name |-> "ValidationError", statusCode |-> 400, value |-> <<>>,
   providerName |-> Null, availableProviders |-> <<>>,
   originalError |-> "none", message |-> {"Invalid " \o key}]

\* new Error(message)
PlainError ==
  [name |-> "Error", statusCode |-> NoStatus, value |-> <<>>,
   providerName |-> Null, availableProviders |-> <<>>,
   originalError |-> "none", message |-> {}]

\* --------------------------------------------------------------- providers

\* what the upstream API answers to one request: a failure, with HTTP status
\* 429 when the quota is exhausted and 500 otherwise, or n articles of
\* content version v and a reported total.  Version 1 reports no total,
\* the later versions an inflated one.
UpstreamAnswers(sizes) ==
  {[ok |-> FALSE, n |-> 0, v |-> 1, total |-> 0, status |-> st] :
     st \in {429, 500}}
    \cup {[ok |-> TRUE, n |-> n, v |-> v, total |-> (v - 1) * (n + MaxAvail),
           status |-> 200] :
            n \in sizes, v \in 1..MaxVersion}

\* the upstream returns at most max articles
Respects(u, max) == u.n <= max

\* the articles of an answer, in upstream order
RawArticles(u) == [i \in 1..u.n |-> <<u.v, i>>]

NoResult ==
  [ok |-> FALSE, error |-> NoError, articles |-> <<>>, totalResults |-> 0,
   actualResults |-> 0, external |-> FALSE]

\* the enums SortBy, SearchInOptions and NewsCategory
EnumValues ==
  [sortBy |-> {"relevance", "date", "publishedAt"},
   searchIn |-> {"title", "description", "content"},
   category |-> {"general", "business", "entertainment", "health", "science",
                 "sports", "technology"}]

\* "value && !Object.values(Enum).includes(value)" for the option named key
\* of an options object, given as the sequence of its <<key, value>> pairs
InvalidOption(options, key) ==
  \E i \in 1..Len(options) :
    /\ options[i][1] = key
    /\ options[i][2] # ""
    /\ options[i][2] \notin EnumValues[key]

\* _validateOptions called with the options named in keys: the option it
\* throws for, or "" when it returns
ValidateOptions(options, keys) ==
  IF "sortBy" \in keys /\ InvalidOption(options, "sortBy") THEN "sortBy"
  ELSE IF "searchIn" \in keys /\ InvalidOption(options, "searchIn")
  THEN "searchIn"
  ELSE IF "category" \in keys /\ InvalidOption(options, "category")
  THEN "category"
  ELSE ""

\* GNewsProvider.searchNews (op "search") and getTopHeadlines (op
\* "headlines"): _validateOptions, then inside the try block the call of the
\* client library and normalizeResponse
GNewsCall(op, options, u) ==
  LET invalid == ValidateOptions(options,
                   IF op = "search" THEN {"sortBy", "searchIn"}
                   ELSE {"category"})
  IN IF invalid # ""
     THEN [NoResult EXCEPT !.error = ValidationError(invalid)]
     ELSE IF ~u.ok
     THEN [NoResult EXCEPT !.error = ExternalAPIError("GNews"),
                           !.external = TRUE]
     ELSE [ok |-> TRUE, error |-> NoError, articles |-> RawArticles(u),
           totalResults |-> u.total, actualResults |-> u.n,
           external |-> TRUE]

\* NewsAPIProvider.searchNews and getTopHeadlines.  _validateOptions throws a
\* plain Error.  normalizeResponse filters with article.isValid(), which
\* ArticleData does not define: with one article or more the filter throws a
\* TypeError inside the try block, and the catch rethrows it, as it does a
\* failure of the request, as a plain Error.
NewsAPICall(op, options, u) ==
  LET invalid == ValidateOptions(options,
                   IF op = "search" THEN {"sortBy"} ELSE {"category"})
  IN IF invalid # ""
     THEN [NoResult EXCEPT
             !.error = [PlainError EXCEPT !.message = {"Invalid " \o invalid}]]
     ELSE IF ~u.ok \/ u.n > 0
     THEN [NoResult EXCEPT !.error = PlainError, !.external = TRUE]
     ELSE [ok |-> TRUE, error |-> NoError, articles |-> <<>>,
           totalResults |-> 0, actualResults |-> 0, external |-> TRUE]

ProviderCall(name, op, options, u) ==
  IF name = GNEWS THEN GNewsCall(op, options, u)
  ELSE NewsAPICall(op, options, u)

\* ---------------------------------------------------------------- registry

\* _registerProvider that makes every provider it registers the default
RegisterProviderAsDefault(reg, name, apiKey) ==
  IF apiKey \in {Undefined, <<>>} THEN reg ELSE <<Append(reg[1], name), name>>

\* NewsClient._registerProvider applied to the registry reg = <<providers, default>>
\* for the provider of the given name and apiKey
RegisterProvider(reg, name, apiKey) ==
  IF apiKey \in {Undefined, <<>>} THEN reg
  ELSE <<Append(reg[1], name), IF reg[2] = Null THEN name ELSE reg[2]>>

\* NewsClient._autoRegisterProviders: gnews first, then newsapi, each only
\* when its key in the environment is a string that is not empty
AutoRegisterProviders(gnewsKey, newsapiKey) ==
  LET gnews == IF gnewsKey \in {Undefined, <<>>} THEN <<<<>>, Null>>
               ELSE RegisterProvider(<<<<>>, Null>>, GNEWS, gnewsKey)
  IN IF newsapiKey \in {Undefined, <<>>} THEN gnews
     ELSE RegisterProvider(gnews, NEWSAPI, newsapiKey)

\* _getProvider that falls back to the default provider for a name that is
\* not registered
GetProviderOrDefault(name) ==
  LET providerName ==
        IF name # Null /\ Registered(name) THEN name ELSE defaultProvider
  IN IF providerName = Null
     THEN [ok |-> FALSE, name |-> Null, error |-> NoProvidersAvailableError]
     ELSE [ok |-> TRUE, name |-> providerName, error |-> NoError]

\* _getProvider that reports a missing default as a provider that was not
\* found
GetProviderMissingDefault(name) ==
  LET providerName == IF name # Null THEN name ELSE defaultProvider
  IN IF providerName = Null \/ ~Registered(providerName)
     THEN [ok |-> FALSE, name |-> Null,
           error |-> ProviderNotFoundError(providerName, getAvailableProviders)]
     ELSE [ok |-> TRUE, name |-> providerName, error |-> NoError]

\* NewsClient._getProvider(name)
GetProvider(name) ==
  LET providerName == IF name # Null THEN name ELSE defaultProvider
  IN IF providerName = Null
     THEN [ok |-> FALSE, name |-> Null, error |-> NoProvidersAvailableError]
     ELSE IF ~Registered(providerName)
     THEN [ok |-> FALSE, name |-> Null,
           error |-> ProviderNotFoundError(providerName, getAvailableProviders)]
     ELSE [ok |-> TRUE, name |-> providerName, error |-> NoError]

\* -------------------------------------------------------------- pagination

NoPagination ==
  [currentPage |-> 0, limit |-> 0, totalResults |-> 0, actualResults |-> 0,
   totalPages |-> 0, hasNextPage |-> FALSE, hasPreviousPage |-> FALSE,
   nextPage |-> NullPage, previousPage |-> NullPage,
   clientSidePagination |-> FALSE]

NoBody ==
  [provider |-> Null, articles |-> <<>>, totalResults |-> 0,
   actualResults |-> 0, pagination |-> NoPagination]

\* the page count rounded down
TotalPagesFloor(totalResults, limit) ==
  IF totalResults > 0 THEN totalResults \div limit ELSE 1

\* Math.ceil(totalResults / limit), 1 when there are no results
TotalPages(totalResults, limit) ==
  IF totalResults > 0 THEN CeilDiv(totalResults, limit) ELSE 1

\* NewsClient._createPaginatedResponse
CreatePaginatedResponse(articles, totalResults, page, limit, hasNextPage, provider) ==
  LET actualResults == Len(articles)
      totalPages == TotalPages(totalResults, limit)
      hasPreviousPage == page > 1
  IN [provider |-> provider, articles |-> articles,
      totalResults |-> totalResults, actualResults |-> actualResults,
      pagination |->
        [currentPage |-> page, limit |-> limit, totalResults |-> totalResults,
         actualResults |-> actualResults, totalPages |-> totalPages,
         hasNextPage |-> hasNextPage, hasPreviousPage |-> hasPreviousPage,
         nextPage |-> IF hasNextPage THEN page + 1 ELSE NullPage,
         previousPage |-> IF hasPreviousPage THEN page - 1 ELSE NullPage,
         clientSidePagination |-> TRUE]]

\* a || b || 0 on counts
OrElse(a, b) == IF a # 0 THEN a ELSE b

\* NewsClient._addPaginationMetadata
AddPaginationMetadata(result, providerName, page, limit) ==
  LET totalResults == OrElse(result.totalResults, Len(result.articles))
      actualResults == OrElse(result.actualResults, Len(result.articles))
      totalPages == CeilDiv(totalResults, limit)
      hasNextPage == page < totalPages
      hasPreviousPage == page > 1
  IN [provider |-> providerName, articles |-> result.articles,
      totalResults |-> result.totalResults,
      actualResults |-> result.actualResults,
      pagination |->
        [currentPage |-> page, limit |-> limit, totalResults |-> totalResults,
         actualResults |-> actualResults, totalPages |-> totalPages,
         hasNextPage |-> hasNextPage, hasPreviousPage |-> hasPreviousPage,
         nextPage |-> IF hasNextPage THEN page + 1 ELSE NullPage,
         previousPage |-> IF hasPreviousPage THEN page - 1 ELSE NullPage,
         clientSidePagination |-> FALSE]]

\* --------------------------------------------------------- search: the cache

\* the start index of a page numbered from 0
StartIndexFromZero(pageNum, limitNum) == pageNum * limitNum

StartIndex(pageNum, limitNum) == (pageNum - 1) * limitNum

\* the end index that stops one article early
EndIndexShort(pageNum, limitNum) == StartIndex(pageNum, limitNum) + limitNum - 1

EndIndex(pageNum, limitNum) == StartIndex(pageNum, limitNum) + limitNum

\* the fetch condition without hasMore
NeedsFetchWhenEmpty(cache) == Len(cache.articles) = 0

\* cache.articles.length === 0 && cache.hasMore
NeedsFetch(cache) == Len(cache.articles) = 0 /\ cache.hasMore

\* the fetch size that is the end index of the requested page for every
\* provider
FetchSizeOfPage(providerName, pageNum, limitNum) == EndIndex(pageNum, limitNum)

FetchSize(providerName, pageNum, limitNum) ==
  IF providerName = GNEWS THEN GNewsFetchSize
  ELSE Max(EndIndex(pageNum, limitNum), limitNum * 2)

\* the entry after "Update cache with all articles from this single fetch"
Populated(providerName, result, fetchSize) ==
  [articles |-> result.articles, totalArticles |-> result.totalResults,
   lastFetchSize |-> fetchSize,
   hasMore |-> IF providerName = GNEWS THEN FALSE
               ELSE Len(result.articles) >= fetchSize]

\* the search result without the special handling of gnews
SearchResultAsReported(cache, providerName, pageNum, limitNum) ==
  LET startIndex == StartIndex(pageNum, limitNum)
      endIndex == EndIndex(pageNum, limitNum)
      pageArticles == Slice(cache.articles, startIndex, endIndex)
      cached == Len(cache.articles)
      more == cached > endIndex \/ cache.hasMore
      hasNextPage ==
        IF cache.totalArticles > 0 THEN endIndex < cache.totalArticles
        ELSE more
      totalResults ==
        IF cache.totalArticles > 0 THEN cache.totalArticles
        ELSE IF more THEN Max(cached * 2, endIndex + limitNum)
        ELSE cached
  IN CreatePaginatedResponse(pageArticles, totalResults, pageNum, limitNum,
                             hasNextPage, providerName)

\* searchNews from "Slice the requested page from cached articles" to its return
SearchResult(cache, providerName, pageNum, limitNum) ==
  LET startIndex == StartIndex(pageNum, limitNum)
      endIndex == EndIndex(pageNum, limitNum)
      pageArticles == Slice(cache.articles, startIndex, endIndex)
      cached == Len(cache.articles)
      more == cached > endIndex \/ cache.hasMore
      hasNextPage ==
        IF providerName = GNEWS THEN cached > endIndex
        ELSE IF cache.totalArticles > 0 THEN endIndex < cache.totalArticles
        ELSE more
      totalResults ==
        IF providerName = GNEWS THEN cached
        ELSE IF cache.totalArticles > 0 THEN cache.totalArticles
        ELSE IF more THEN Max(cached * 2, endIndex + limitNum)
        ELSE cached
  IN CreatePaginatedResponse(pageArticles, totalResults, pageNum, limitNum,
                             hasNextPage, providerName)

\* ------------------------------------------------------------------- calls

\* the arguments of a call as its caller wrote them
NoRequest ==
  [query |-> Undefined, provider |-> Null, page |-> Undefined, limit |-> Undefined]

Request(query, provider, page, limit) ==
  [query |-> query, provider |-> provider, page |-> page, limit |-> limit]

IdleCall ==
  [pc |-> "idle", request |-> NoRequest, key |-> NoKey, provider |-> Null,
   page |-> 0, limit |-> 0, detached |-> FALSE, options |-> <<>>]

NoResponse ==
  [op |-> "none", outcome |-> "none", request |-> NoRequest, error |-> NoError,
   stale |-> FALSE, fetchedNow |-> FALSE, key |-> NoKey, cached |-> <<>>,
   body |-> NoBody, external |-> FALSE, max |-> 0, offset |-> 0,
   options |-> <<>>, upstream |-> NoStatus,
   http |-> [sent |-> FALSE, status |-> NoStatus, json |-> <<>>]]

Threw(op, request, error) ==
  [NoResponse EXCEPT !.op = op, !.outcome = "error", !.request = request,
                     !.error = error]

AnyIdle == \E c \in Calls : calls[c].pc = "idle"
FreeCall == CHOOSE c \in Calls : calls[c].pc = "idle"

\* the event loop is between two tasks: the last result has reached its caller
Quiet == response.op = "none"

\* page = 1 and limit = 10 defaults of the options destructuring
PageOrDefault(page) == IF page = Undefined THEN Numeral(DefaultPage) ELSE page
LimitOrDefault(limit) == IF limit = Undefined THEN Numeral(DefaultLimit) ELSE limit

\* !query?.trim()
QueryMissing(query) == query = Undefined \/ Trim(query) = <<>>

\* the check that lets zero pass
NotPositiveOrZero(parsed) == parsed.nan \/ parsed.v < 0

\* isNaN(n) || n < 1 for n = parseInt(x)
NotPositive(parsed) == parsed.nan \/ parsed.v < 1

Unserved == [set |-> FALSE, articles |-> <<>>]

\* the first sequence served for a key is remembered
Serve(key, articles) ==
  IF served[key].set THEN served
  ELSE [served EXCEPT ![key] = [set |-> TRUE, articles |-> articles]]

\* searchNews(query, {provider, page, limit, ...searchOptions}) up to its first
\* await, or to its return or throw when it does not fetch
SearchNewsStart(query, provider, page, limit, searchOptions) ==
  LET request == Request(query, provider, page, limit)
      pageNum == ParseInt(PageOrDefault(page))
      limitNum == ParseInt(LimitOrDefault(limit))
      newsProvider == GetProvider(provider)
      cacheKey == CacheKey(query, newsProvider.name, searchOptions)
      cache == IF cacheKey \in DOMAIN articleCache
               THEN articleCache[cacheKey] ELSE EmptyEntry
      withEntry == [k \in DOMAIN articleCache \cup {cacheKey} |->
                      IF k = cacheKey THEN cache ELSE articleCache[k]]
  IN /\ Quiet
     /\ IF QueryMissing(query)
        THEN /\ response' = Threw("search", request,
                  InvalidQueryError(IF query = Undefined THEN <<>> ELSE query))
             /\ UNCHANGED <<articleCache, calls, fetched, served>>
        ELSE IF NotPositive(pageNum)
        THEN /\ response' = Threw("search", request,
                                  InvalidQueryError(PageOrDefault(page)))
             /\ UNCHANGED <<articleCache, calls, fetched, served>>
        ELSE IF NotPositive(limitNum)
        THEN /\ response' = Threw("search", request,
                                  InvalidQueryError(LimitOrDefault(limit)))
             /\ UNCHANGED <<articleCache, calls, fetched, served>>
        ELSE IF ~newsProvider.ok
        THEN /\ response' = Threw("search", request, newsProvider.error)
             /\ UNCHANGED <<articleCache, calls, fetched, served>>
        ELSE IF NeedsFetch(cache)
        THEN /\ AnyIdle
             /\ articleCache' = withEntry
             /\ calls' = [calls EXCEPT ![FreeCall] =
                  [pc |-> "search", request |-> request, key |-> cacheKey,
                   provider |-> newsProvider.name, page |-> pageNum.v,
                   limit |-> limitNum.v, detached |-> FALSE,
                   options |-> searchOptions]]
             /\ UNCHANGED <<response, fetched, served>>
        ELSE /\ articleCache' = withEntry
             /\ response' =
                  [NoResponse EXCEPT
                     !.op = "search", !.outcome = "ok", !.request = request,
                     !.key = cacheKey, !.cached = cache.articles,
                     !.body = SearchResult(cache, newsProvider.name,
                                           pageNum.v, limitNum.v)]
             /\ served' = Serve(cacheKey, cache.articles)
             /\ UNCHANGED <<calls, fetched>>
     /\ UNCHANGED <<env, agent, articleData, providers, defaultProvider>>

\* searchNews that marks the entry as exhausted when its fetch fails
SearchNewsResumeCachingFailure(c, u) ==
  LET call == calls[c]
      fetchSize == FetchSize(call.provider, call.page, call.limit)
      result == ProviderCall(call.provider, "search", call.options, u)
      cache == Populated(call.provider, result, fetchSize)
  IN /\ Quiet
     /\ call.pc = "search"
     /\ Respects(u, fetchSize)
     /\ calls' = [calls EXCEPT ![c] = IdleCall]
     /\ IF ~result.ok
        THEN /\ response' = [Threw("search", call.request, result.error) EXCEPT
                               !.stale = call.detached, !.key = call.key,
                               !.fetchedNow = TRUE,
                               !.external = result.external,
                               !.upstream = u.status,
                               !.max = fetchSize, !.options = call.options]
             /\ articleCache' =
                  IF call.detached THEN articleCache
                  ELSE [articleCache EXCEPT ![call.key].hasMore = FALSE]
             /\ UNCHANGED <<fetched, served>>
        ELSE /\ response' =
                  [NoResponse EXCEPT
                     !.op = "search", !.outcome = "ok", !.request = call.request,
                     !.key = call.key, !.stale = call.detached,
                     !.fetchedNow = TRUE, !.cached = cache.articles,
                     !.external = result.external, !.max = fetchSize,
                     !.upstream = u.status, !.options = call.options,
                     !.body = SearchResult(cache, call.provider,
                                           call.page, call.limit)]
             /\ IF call.detached
                THEN UNCHANGED <<articleCache, fetched, served>>
                ELSE /\ articleCache' = [articleCache EXCEPT ![call.key] = cache]
                     /\ fetched' = [fetched EXCEPT ![call.key] = @ + 1]
                     /\ served' = Serve(call.key, cache.articles)
     /\ UNCHANGED <<env, agent, articleData, providers, defaultProvider>>

\* searchNews from the return of "await newsProvider.searchNews(...)" on: the
\* call c resumes with the answer u of the upstream
SearchNewsResume(c, u) ==
  LET call == calls[c]
      fetchSize == FetchSize(call.provider, call.page, call.limit)
      result == ProviderCall(call.provider, "search", call.options, u)
      cache == Populated(call.provider, result, fetchSize)
  IN /\ Quiet
     /\ call.pc = "search"
     /\ Respects(u, fetchSize)
     /\ calls' = [calls EXCEPT ![c] = IdleCall]
     /\ IF ~result.ok
        THEN /\ response' = [Threw("search", call.request, result.error) EXCEPT
                               !.stale = call.detached, !.key = call.key,
                               !.fetchedNow = TRUE,
                               !.external = result.external,
                               !.upstream = u.status,
                               !.max = fetchSize, !.options = call.options]
             /\ UNCHANGED <<articleCache, fetched, served>>
        ELSE /\ response' =
                  [NoResponse EXCEPT
                     !.op = "search", !.outcome = "ok", !.request = call.request,
                     !.key = call.key, !.stale = call.detached,
                     !.fetchedNow = TRUE, !.cached = cache.articles,
                     !.external = result.external, !.max = fetchSize,
                     !.upstream = u.status, !.options = call.options,
                     !.body = SearchResult(cache, call.provider,
                                           call.page, call.limit)]
             /\ IF call.detached
                THEN UNCHANGED <<articleCache, fetched, served>>
                ELSE /\ articleCache' = [articleCache EXCEPT ![call.key] = cache]
                     /\ fetched' = [fetched EXCEPT ![call.key] = @ + 1]
                     /\ served' = Serve(call.key, cache.articles)
     /\ UNCHANGED <<env, agent, articleData, providers, defaultProvider>>

\* getTopHeadlines({provider, page, limit, ...headlineOptions}) up to its await
GetTopHeadlinesStart(provider, page, limit, headlineOptions) ==
  LET request == Request(Undefined, provider, page, limit)
      pageNum == ParseInt(PageOrDefault(page))
      limitNum == ParseInt(LimitOrDefault(limit))
      newsProvider == GetProvider(provider)
  IN /\ Quiet
     /\ IF NotPositive(pageNum)
        THEN /\ response' = Threw("headlines", request,
                                  InvalidQueryError(PageOrDefault(page)))
             /\ UNCHANGED calls
        ELSE IF NotPositive(limitNum)
        THEN /\ response' = Threw("headlines", request,
                                  InvalidQueryError(LimitOrDefault(limit)))
             /\ UNCHANGED calls
        ELSE IF ~newsProvider.ok
        THEN /\ response' = Threw("headlines", request, newsProvider.error)
             /\ UNCHANGED calls
        ELSE /\ AnyIdle
             /\ calls' = [calls EXCEPT ![FreeCall] =
                  [pc |-> "headlines", request |-> request, key |-> NoKey,
                   provider |-> newsProvider.name, page |-> pageNum.v,
                   limit |-> limitNum.v, detached |-> FALSE,
                   options |-> headlineOptions]]
             /\ UNCHANGED response
     /\ UNCHANGED <<env, agent, articleData, providers, defaultProvider, articleCache, fetched, served>>

\* the offset taken for the number of the page
OffsetOfPage(pageNum, limitNum) == pageNum * limitNum

\* "Calculate offset for provider"
Offset(pageNum, limitNum) == (pageNum - 1) * limitNum

\* getTopHeadlines from the return of "await newsProvider.getTopHeadlines(...)"
\* on; max is the limit
GetTopHeadlinesResume(c, u) ==
  LET call == calls[c]
      result == ProviderCall(call.provider, "headlines", call.options, u)
      offset == Offset(call.page, call.limit)
      maxResults == call.limit
  IN /\ Quiet
     /\ call.pc = "headlines"
     /\ Respects(u, maxResults)
     /\ calls' = [calls EXCEPT ![c] = IdleCall]
     /\ response' =
          IF ~result.ok
          THEN [Threw("headlines", call.request, result.error) EXCEPT
                  !.fetchedNow = TRUE, !.external = result.external,
                  !.upstream = u.status,
                  !.max = maxResults, !.offset = offset,
                  !.options = call.options]
          ELSE [NoResponse EXCEPT
                  !.op = "headlines", !.outcome = "ok",
                  !.request = call.request, !.fetchedNow = TRUE,
                  !.external = result.external,
                  !.upstream = u.status,
                  !.max = maxResults, !.offset = offset,
                  !.options = call.options,
                  !.body = AddPaginationMetadata(result, call.provider,
                                                 call.page, call.limit)]
     /\ UNCHANGED <<env, agent, articleData, providers, defaultProvider, articleCache, fetched, served>>

\* setDefaultProvider without the check of the registry
SetDefaultProviderUnchecked(name) ==
  /\ Quiet
  /\ defaultProvider' = name
  /\ response' = [NoResponse EXCEPT !.op = "setDefault", !.outcome = "ok",
                    !.request = Request(Undefined, name, Undefined, Undefined)]
  /\ UNCHANGED <<env, agent, articleData, providers, articleCache, calls, fetched, served>>

\* NewsClient.setDefaultProvider(name)
SetDefaultProvider(name) ==
  LET request == Request(Undefined, name, Undefined, Undefined)
  IN /\ Quiet
     /\ IF ~Registered(name)
        THEN /\ response' = Threw("setDefault", request,
                               ProviderNotFoundError(name, getAvailableProviders))
             /\ UNCHANGED defaultProvider
        ELSE /\ defaultProvider' = name
             /\ response' = [NoResponse EXCEPT !.op = "setDefault",
                               !.outcome = "ok", !.request = request]
     /\ UNCHANGED <<env, agent, articleData, providers, articleCache, calls, fetched, served>>

\* NewsClient.clearCache(): the map is emptied; a call suspended at its await
\* keeps the entry object it read from the map before
ClearCache ==
  /\ Quiet
  /\ articleCache' = [k \in {} |-> EmptyEntry]
  /\ calls' = [c \in Calls |->
                 IF calls[c].pc = "search"
                 THEN [calls[c] EXCEPT !.detached = TRUE] ELSE calls[c]]
  /\ fetched' = [k \in AllKeys |-> 0]
  /\ served' = [k \in AllKeys |-> Unserved]
  /\ UNCHANGED <<env, agent, articleData, providers, defaultProvider, response>>

\* the caller of the call that just completed takes its result
Deliver ==
  /\ ~Quiet
  /\ response' = NoResponse
  /\ UNCHANGED <<env, agent, articleData, providers, defaultProvider, articleCache, calls, fetched, served>>

\* ----------------------------------------------------------- error handler

\* "new <name>(...)" for a class of the taxonomy that adds no field of its
\* own to message and statusCode
NewsError(name, message, statusCode) ==
  [name |-> name, statusCode |-> statusCode, value |-> <<>>,
   providerName |-> Null, availableProviders |-> <<>>,
   originalError |-> "none", message |-> message]

\* createNewsError(message); the message is the set of the phrases the
\* function looks for that it includes
CreateNewsError(message) ==
  IF message \cap {"Invalid sortBy", "Invalid searchIn", "Invalid category"} # {}
  THEN NewsError("ValidationError", message, 400)
  ELSE IF message \cap {"not properly configured", "API key",
                        "not configured"} # {}
  THEN NewsError("ProviderConfigurationError", message, 503)
  ELSE IF "not found" \in message /\ "Provider '' not found" \in message
  THEN ProviderNotFoundError(GUARDIAN, <<>>)
  ELSE IF message \cap {"rate limit", "quota exceeded"} # {}
  THEN [NewsError("RateLimitError", {}, 429) EXCEPT
          !.providerName = "unknown provider"]
  ELSE NewsError("NewsError", message, 500)

\* NewsError.toJSON()
ToJSON(this) ==
  [success |-> FALSE, error |-> this.message, type |-> this.name,
   statusCode |-> this.statusCode]

\* newsErrorHandler that answers an error that is no NewsError with status 500
NewsErrorHandlerInternalError(error) ==
  IF error.name # "Error"
  THEN [sent |-> TRUE, status |-> error.statusCode, json |-> ToJSON(error)]
  ELSE [sent |-> TRUE, status |-> 500,
        json |-> ToJSON(CreateNewsError(error.message))]

\* newsErrorHandler(error, req, res): the status and the body written to res
NewsErrorHandler(error) ==
  IF error.name # "Error"
  THEN [sent |-> TRUE, status |-> error.statusCode, json |-> ToJSON(error)]
  ELSE [sent |-> TRUE, status |-> CreateNewsError(error.message).statusCode,
        json |-> ToJSON(CreateNewsError(error.message))]

\* the catch block of a route hands the error it caught to newsErrorHandler
RouteCatch ==
  /\ response.outcome = "error"
  /\ ~response.http.sent
  /\ response' = [response EXCEPT !.http = NewsErrorHandler(response.error)]
  /\ UNCHANGED <<env, agent, articleData, providers, defaultProvider, articleCache, calls,
                 fetched, served>>

\* ---------------------------------------------------------- AgentSynopsis

\* "new AgentSynopsis({cacheEnabled})" on an empty store; the store is the set
\* of the stored articles, each with its url and its _id, and nextId is the
\* _id the store gives to the next document.  db is the "new
\* DatabaseManager()" of the constructor, whose auto-connect has called
\* connect(): attempts are the invocations of mongoose.connect, each pending,
\* resolved, rejected or closed, and connectionPromise and connection hold the
\* number of an attempt, or 0 for null.
NewAgent(cacheEnabled) ==
  [cacheEnabled |-> cacheEnabled, store |-> {}, nextId |-> 1,
   db |-> [isConnected |-> FALSE, connection |-> 0, connectionPromise |-> 1,
           attempts |-> <<"pending">>, disconnecting |-> FALSE,
           last |-> [op |-> "connect", returned |-> 1, ok |-> TRUE]],
   llm |-> [maxRetries |-> DefaultMaxRetries, pc |-> "idle", i |-> 0,
            invoked |-> 0, waited |-> 0, lastErr |-> 0],
   last |-> [op |-> "none", url |-> <<>>, id |-> 0, stored |-> FALSE,
             deleted |-> FALSE, outcome |-> "none", llmCalled |-> FALSE,
             wrote |-> FALSE]]

\* AgentSynopsis.analyzeArticle(articleData), from call to return or throw.
\* valid: the data passes _validateArticleData; connected: _ensureConnection
\* returns; found: Article.findOne resolves, otherwise it rejects and findByUrl
\* returns null; analysed: the LLM answers with a valid analysis; saved: the
\* store accepts the document, unless its unique index on url refuses it.
AnalyzeArticle(url, valid, connected, found, analysed, saved) ==
  LET inStore == \E d \in agent.store : d.url = url
      existingArticle == connected /\ found /\ inStore
      lookedUp == agent.cacheEnabled
      llmCalled == /\ valid
                   /\ lookedUp => (connected /\ ~existingArticle)
      duplicate == inStore
      wrote == llmCalled /\ analysed /\ connected /\ saved /\ ~duplicate
      outcome ==
        IF ~valid THEN "ValidationError"
        ELSE IF lookedUp /\ ~connected THEN "Error"
        ELSE IF lookedUp /\ existingArticle THEN "stored"
        ELSE IF ~analysed THEN "ExternalAPIError"
        ELSE IF ~connected THEN "Error"
        ELSE IF duplicate THEN "ValidationError"
        ELSE IF ~saved THEN "Error"
        ELSE "saved"
  IN /\ agent.nextId <= MaxDocs
     /\ agent' =
          [agent EXCEPT
             !.store = IF wrote THEN @ \cup {[url |-> url, id |-> agent.nextId]}
                       ELSE @,
             !.nextId = IF wrote THEN @ + 1 ELSE @,
             !.last = [op |-> "analyze", url |-> url, id |-> 0,
                       stored |-> inStore, deleted |-> FALSE,
                       outcome |-> outcome,
                       llmCalled |-> llmCalled, wrote |-> wrote]]
     /\ UNCHANGED <<clientVars, articleData>>

\* AgentSynopsis.deleteArticle(id) for the id of the article stored with url
DeleteArticle(url) ==
  /\ \E d \in agent.store : d.url = url
  /\ agent' = [agent EXCEPT
                 !.store = {d \in @ : d.url # url},
                 !.last = [op |-> "delete", url |-> url,
                           id |-> (CHOOSE d \in agent.store : d.url = url).id,
                           stored |-> TRUE, deleted |-> TRUE,
                           outcome |-> "deleted", llmCalled |-> FALSE,
                           wrote |-> TRUE]]
  /\ UNCHANGED <<clientVars, articleData>>

\* the reanalyze route that puts the article back when the analysis fails
ReanalyzeRestoring(id, connected, looked, deleted, valid, reconnected, analysed, saved) ==
  LET existing == {d \in agent.store : d.id = id}
      existingArticle == CHOOSE d \in existing : TRUE
      didDelete == connected /\ looked /\ existing # {} /\ deleted
      llmCalled == didDelete /\ valid /\ (agent.cacheEnabled => reconnected)
      wrote == llmCalled /\ analysed /\ reconnected /\ saved
      outcome ==
        IF ~connected THEN "Error"
        ELSE IF ~looked \/ existing = {} THEN "404"
        ELSE IF ~deleted THEN "Error"
        ELSE IF ~valid THEN "ValidationError"
        ELSE IF agent.cacheEnabled /\ ~reconnected THEN "Error"
        ELSE IF ~analysed THEN "ExternalAPIError"
        ELSE IF ~reconnected \/ ~saved THEN "Error"
        ELSE "saved"
  IN /\ agent.nextId <= MaxDocs
     /\ agent' =
          [agent EXCEPT
             !.store =
               IF wrote
               THEN (@ \ existing)
                      \cup {[url |-> existingArticle.url, id |-> agent.nextId]}
               ELSE @,
             !.nextId = IF wrote THEN @ + 1 ELSE @,
             !.last = [op |-> "reanalyze",
                       url |-> IF existing = {} THEN <<>>
                               ELSE existingArticle.url,
                       id |-> id, stored |-> existing # {},
                       deleted |-> didDelete, outcome |-> outcome,
                       llmCalled |-> llmCalled, wrote |-> wrote]]
     /\ UNCHANGED <<clientVars, articleData>>

\* router.post('/reanalyze/:id'), from the request to the response.
\* connected: the _ensureConnection of findById returns, otherwise the route
\* answers with the error; looked: Article.findById resolves, otherwise findById
\* returns null and the route answers 404, as it does for an id that is not
\* stored; deleted: deleteArticle resolves after removing the document,
\* otherwise it throws with the document in place.  The analyzeArticle that
\* follows runs on a store without the url: its findByUrl finds nothing, and
\* valid, reconnected, analysed and saved are as in AnalyzeArticle.
Reanalyze(id, connected, looked, deleted, valid, reconnected, analysed, saved) ==
  LET existing == {d \in agent.store : d.id = id}
      existingArticle == CHOOSE d \in existing : TRUE
      didDelete == connected /\ looked /\ existing # {} /\ deleted
      llmCalled == didDelete /\ valid /\ (agent.cacheEnabled => reconnected)
      wrote == llmCalled /\ analysed /\ reconnected /\ saved
      outcome ==
        IF ~connected THEN "Error"
        ELSE IF ~looked \/ existing = {} THEN "404"
        ELSE IF ~deleted THEN "Error"
        ELSE IF ~valid THEN "ValidationError"
        ELSE IF agent.cacheEnabled /\ ~reconnected THEN "Error"
        ELSE IF ~analysed THEN "ExternalAPIError"
        ELSE IF ~reconnected \/ ~saved THEN "Error"
        ELSE "saved"
  IN /\ agent.nextId <= MaxDocs
     /\ agent' =
          [agent EXCEPT
             !.store =
               IF wrote
               THEN (@ \ existing)
                      \cup {[url |-> existingArticle.url, id |-> agent.nextId]}
               ELSE IF didDelete THEN @ \ existing
               ELSE @,
             !.nextId = IF wrote THEN @ + 1 ELSE @,
             !.last = [op |-> "reanalyze",
                       url |-> IF existing = {} THEN <<>>
                               ELSE existingArticle.url,
                       id |-> id, stored |-> existing # {},
                       deleted |-> didDelete, outcome |-> outcome,
                       llmCalled |-> llmCalled, wrote |-> wrote]]
     /\ UNCHANGED <<clientVars, articleData>>

\* -------------------------------------------------------- DatabaseManager

\* llm is the LLMClient of the agent: its maxRetries, and of the _retry that
\* runs or ran last the position pc, the loop variable i, the calls of fn made
\* and the delays started; lastErr is the number of the call of fn whose error
\* it holds, or 0 for undefined.

\* connect() that performs a connection whatever attempt is stored
ConnectAlways ==
  /\ Len(agent.db.attempts) < MaxAttempts
  /\ agent' =
       [agent EXCEPT
          !.db.attempts = Append(@, "pending"),
          !.db.connectionPromise = Len(agent.db.attempts) + 1,
          !.db.last = [op |-> "connect", returned |-> Len(agent.db.attempts) + 1,
                       ok |-> TRUE]]
  /\ UNCHANGED <<clientVars, articleData>>

\* DatabaseManager.connect(): it returns the stored attempt, or stores and
\* returns the attempt that _performConnection starts by invoking
\* mongoose.connect
Connect ==
  /\ IF agent.db.connectionPromise # 0
     THEN agent' =
            [agent EXCEPT
               !.db.last = [op |-> "connect",
                            returned |-> agent.db.connectionPromise,
                            ok |-> TRUE]]
     ELSE /\ Len(agent.db.attempts) < MaxAttempts
          /\ agent' =
               [agent EXCEPT
                  !.db.attempts = Append(@, "pending"),
                  !.db.connectionPromise = Len(agent.db.attempts) + 1,
                  !.db.last = [op |-> "connect",
                               returned |-> Len(agent.db.attempts) + 1,
                               ok |-> TRUE]]
  /\ UNCHANGED <<clientVars, articleData>>

\* _performConnection from the return of "await mongoose.connect(...)" on, for
\* the attempt a: it resolved (ok), or it rejected and the catch block runs
PerformConnection(a, ok) ==
  /\ a \in 1..Len(agent.db.attempts)
  /\ agent.db.attempts[a] = "pending"
  /\ agent' =
       IF ok
       THEN [agent EXCEPT
               !.db.connection = a,
               !.db.isConnected = TRUE,
               !.db.attempts[a] = "resolved",
               !.db.last = [op |-> "settle", returned |-> a, ok |-> TRUE]]
       ELSE [agent EXCEPT
               !.db.isConnected = FALSE,
               !.db.connectionPromise = 0,
               !.db.attempts[a] = "rejected",
               !.db.last = [op |-> "settle", returned |-> a, ok |-> FALSE]]
  /\ UNCHANGED <<clientVars, articleData>>

\* DatabaseManager.disconnect(): up to "await this.connection.disconnect()"
\* when there is a connection, and from its return on: it resolved (ok) and
\* the state is cleared, or it rejected and disconnect throws.  Without
\* connection the state is cleared at once.
Disconnect(ok) ==
  /\ agent' =
       IF ~agent.db.disconnecting /\ agent.db.connection # 0
       THEN [agent EXCEPT !.db.disconnecting = TRUE]
       ELSE IF agent.db.disconnecting /\ ~ok
       THEN [agent EXCEPT
               !.db.disconnecting = FALSE,
               !.db.last = [op |-> "disconnect", returned |-> 0, ok |-> FALSE]]
       ELSE [agent EXCEPT
               !.db.disconnecting = FALSE,
               !.db.isConnected = FALSE,
               !.db.connection = 0,
               !.db.connectionPromise = 0,
               !.db.attempts =
                 [a \in DOMAIN @ |->
                    IF a = agent.db.connection THEN "closed" ELSE @[a]],
               !.db.last = [op |-> "disconnect", returned |-> 0, ok |-> TRUE]]
  /\ UNCHANGED <<clientVars, articleData>>

\* _ensureConnection up to its await: when the connection is not healthy it
\* calls connect() if no attempt is stored, and awaits the stored attempt
\* otherwise
EnsureConnection ==
  /\ ~agent.db.isConnected
  /\ IF agent.db.connectionPromise = 0
     THEN /\ Len(agent.db.attempts) < MaxAttempts
          /\ agent' =
               [agent EXCEPT
                  !.db.attempts = Append(@, "pending"),
                  !.db.connectionPromise = Len(agent.db.attempts) + 1,
                  !.db.last = [op |-> "ensure",
                               returned |-> Len(agent.db.attempts) + 1,
                               ok |-> TRUE]]
     ELSE agent' =
            [agent EXCEPT
               !.db.last = [op |-> "ensure",
                            returned |-> agent.db.connectionPromise,
                            ok |-> TRUE]]
  /\ UNCHANGED <<clientVars, articleData>>

\* the handlers of _setupConnectionEventHandlers: 'connected' and
\* 'reconnected' (up), 'error' and 'disconnected' (not up)
ConnectionEvent(up) ==
  /\ agent.db.connection # 0
  /\ agent' = [agent EXCEPT !.db.isConnected = up]
  /\ UNCHANGED <<clientVars, articleData>>

\* -------------------------------------------------------------- LLMClient

\* LLMClient._retry(fn) of a client constructed with maxRetries, up to its
\* first await, or to its throw when the loop has no iteration
Retry(maxRetries) ==
  /\ agent.llm.pc \in {"idle", "returned", "threw"}
  /\ agent' =
       [agent EXCEPT
          !.llm = [maxRetries |-> maxRetries,
                   pc |-> IF 0 < maxRetries THEN "calling" ELSE "threw",
                   i |-> 0,
                   invoked |-> IF 0 < maxRetries THEN 1 ELSE 0,
                   waited |-> 0, lastErr |-> 0]]
  /\ UNCHANGED <<clientVars, articleData>>

\* _retry that also waits after the failure of the last attempt
RetrySettleWaitingAfterLast(ok) ==
  LET llm == agent.llm
  IN /\ llm.pc \in {"calling", "waiting"}
     /\ agent' =
          IF llm.pc = "calling" /\ ok
          THEN [agent EXCEPT !.llm.pc = "returned"]
          ELSE IF llm.pc = "calling"
          THEN [agent EXCEPT !.llm.lastErr = llm.invoked,
                             !.llm.waited = @ + 1,
                             !.llm.pc = "waiting"]
          ELSE IF llm.i + 1 < llm.maxRetries
          THEN [agent EXCEPT !.llm.i = @ + 1,
                             !.llm.invoked = @ + 1,
                             !.llm.pc = "calling"]
          ELSE [agent EXCEPT !.llm.i = @ + 1, !.llm.pc = "threw"]
     /\ UNCHANGED <<clientVars, articleData>>

\* _retry from the settling of the promise it awaits on.  At "await fn()":
\* fn resolved (ok) and _retry returns its value, or it rejected, the catch
\* block keeps the error and, unless this was the last iteration, starts the
\* delay; after the last iteration the loop ends and lastErr is thrown.  At
\* the await of the delay: the timer fired, and the next iteration calls fn.
RetrySettle(ok) ==
  LET llm == agent.llm
  IN /\ llm.pc \in {"calling", "waiting"}
     /\ agent' =
          IF llm.pc = "calling" /\ ok
          THEN [agent EXCEPT !.llm.pc = "returned"]
          ELSE IF llm.pc = "calling" /\ llm.i < llm.maxRetries - 1
          THEN [agent EXCEPT !.llm.lastErr = llm.invoked,
                             !.llm.waited = @ + 1,
                             !.llm.pc = "waiting"]
          ELSE IF llm.pc = "calling"
          THEN [agent EXCEPT !.llm.lastErr = llm.invoked,
                             !.llm.i = @ + 1,
                             !.llm.pc = "threw"]
          ELSE [agent EXCEPT !.llm.i = @ + 1,
                             !.llm.invoked = @ + 1,
                             !.llm.pc = "calling"]
     /\ UNCHANGED <<clientVars, articleData>>

\* ------------------------------------------------------------ ArticleData

\* JavaScript null in a field that otherwise holds a string
JSNull == <<"null">>

\* the ASCII characters of codes 32 to 95, in the order of their codes
PrintableLow ==
  <<" ", "!", "\"", "#", "$", "%", "&", "'", "(", ")", "*", "+", ",", "-",
    ".", "/", "0", "1", "2", "3", "4", "5", "6", "7", "8", "9", ":", ";",
    "<", "=", ">", "?", "@", "A", "B", "C", "D", "E", "F", "G", "H", "I",
    "J", "K", "L", "M", "N", "O", "P", "Q", "R", "S", "T", "U", "V", "W",
    "X", "Y", "Z", "[", "\\", "]", "^", "_">>

\* the ASCII characters of codes 97 to 126, in the order of their codes
PrintableHigh ==
  <<"a", "b", "c", "d", "e", "f", "g", "h", "i", "j", "k", "l", "m", "n",
    "o", "p", "q", "r", "s", "t", "u", "v", "w", "x", "y", "z", "{", "|",
    "}", "~">>

\* the code of every character of the tables and of tab, line feed and
\* carriage return
CharCodes ==
  [ch \in {PrintableLow[i] : i \in 1..Len(PrintableLow)}
            \cup {PrintableHigh[i] : i \in 1..Len(PrintableHigh)}
            \cup {"\t", "\n", "\r"} |->
     IF ch = "\t" THEN 9
     ELSE IF ch = "\n" THEN 10
     ELSE IF ch = "\r" THEN 13
     ELSE IF \E i \in 1..Len(PrintableLow) : PrintableLow[i] = ch
          THEN 31 + (CHOOSE i \in 1..Len(PrintableLow) : PrintableLow[i] = ch)
          ELSE 96 + (CHOOSE i \in 1..Len(PrintableHigh) :
                       PrintableHigh[i] = ch)]

\* String.prototype.charCodeAt(0) of a one-character string
CharCodeAt(ch) == CharCodes[ch]

IsLetter(ch) ==
  \/ CharCodeAt(ch) \in 65..90
  \/ CharCodeAt(ch) \in 97..122

\* string literals of the constructor
NoTitleAvailable ==
  <<"N", "o", " ", "t", "i", "t", "l", "e", " ",
    "a", "v", "a", "i", "l", "a", "b", "l", "e">>
UnknownSource == <<"U", "n", "k", "n", "o", "w", "n">>
UnknownProvider == <<"u", "n", "k", "n", "o", "w", "n">>
GNewsName == <<"g", "n", "e", "w", "s">>

\* a value that is no string and is not falsy, a number such as 42
JSNumber == <<"number">>

\* "!value" for a value that is a string, a number, undefined or null
Falsy(value) == value \in {Undefined, JSNull, <<>>}

\* "typeof value === 'string'"
IsString(value) == value \notin {Undefined, JSNull, JSNumber}

\* "a || b"
OrDefault(a, b) == IF Falsy(a) THEN b ELSE a

\* String(value), as "+" applies it to an operand that may be null
StringOf(value) ==
  IF value = JSNull THEN <<"n", "u", "l", "l">>
  ELSE IF value = Undefined
       THEN <<"u", "n", "d", "e", "f", "i", "n", "e", "d">>
       ELSE value

\* replace(/\s+/g, ' '): every run of whitespace becomes one space
RECURSIVE CollapseWhitespace(_)
CollapseWhitespace(s) ==
  IF s = <<>> THEN <<>>
  ELSE IF Head(s) \in Whitespace
       THEN <<" ">> \o CollapseWhitespace(TrimStart(s))
       ELSE <<Head(s)>> \o CollapseWhitespace(Tail(s))

\* replace(/[\r\n\t]/g, ' ')
ReplaceControls(s) ==
  [i \in 1..Len(s) |-> IF s[i] \in {"\r", "\n", "\t"} THEN " " ELSE s[i]]

\* ArticleData._sanitizeString
SanitizeString(str) ==
  IF Falsy(str) \/ ~IsString(str) THEN <<>>
  ELSE LET clean == ReplaceControls(CollapseWhitespace(Trim(str)))
       IN SubSeq(clean, 1, Min(MaxStringLength, Len(clean)))

\* the index of the first ":" of s, 0 when there is none
RECURSIVE ColonAt(_, _)
ColonAt(s, i) ==
  IF i > Len(s) THEN 0 ELSE IF s[i] = ":" THEN i ELSE ColonAt(s, i + 1)

\* "new URL(url)" does not throw: the text starts with a scheme, a letter
\* followed by letters, digits, "+", "-" or ".", then ":", and something
\* other than slashes follows (the host of an http or https URL)
ParsesAsURL(url) ==
  LET colon == ColonAt(url, 1)
  IN /\ colon > 1
     /\ IsLetter(url[1])
     /\ \A i \in 2..(colon - 1) :
          IsLetter(url[i]) \/ IsDigit(url[i]) \/ url[i] \in {"+", "-", "."}
     /\ \E i \in (colon + 1)..Len(url) : url[i] \notin {"/", "\\"}

\* an exception in the place of a value
Thrown == <<"TypeError">>

\* "new URL(url)": the URL, or the TypeError thrown for a text that does not
\* parse
NewURL(url) == IF ParsesAsURL(url) THEN url ELSE Thrown

\* _validateUrl without the try block around "new URL(url)"
ValidateUrlUncaught(url) ==
  IF Falsy(url) \/ ~IsString(url) THEN JSNull ELSE NewURL(url)

\* ArticleData._validateUrl
ValidateUrl(url) ==
  IF Falsy(url) \/ ~IsString(url) THEN JSNull
  ELSE IF NewURL(url) = Thrown THEN JSNull ELSE url

\* "new Date(date)" for a text that is a year, Invalid Date for another text
DateOf(date) ==
  IF Len(date) = 4 /\ \A i \in 1..4 : IsDigit(date[i])
  THEN [isNull |-> FALSE, valid |-> TRUE, year |-> DigitsValue(date, 0)]
  ELSE [isNull |-> FALSE, valid |-> FALSE, year |-> 0]

NullDate == [isNull |-> TRUE, valid |-> FALSE, year |-> 0]

\* ArticleData._validateDate
ValidateDate(date) ==
  IF Falsy(date) \/ ~IsString(date) THEN NullDate ELSE DateOf(date)

\* ArticleData._normalizeSource
NormalizeSource(source) ==
  IF ~source.isObject
  THEN [name |-> UnknownSource, url |-> JSNull]
  ELSE [name |-> OrDefault(SanitizeString(source.name), UnknownSource),
        url |-> OrDefault(ValidateUrl(source.url), JSNull)]

\* A 32-bit integer is held as its two 16-bit halves, hi * 2^16 + lo being
\* its value as an unsigned integer.
Word == 2 ^ 16

Zero32 == [hi |-> 0, lo |-> 0]

\* "a << 5"
ShiftLeft5(a) ==
  LET low == a.lo * 32
  IN [hi |-> ((a.hi * 32) + (low \div Word)) % Word, lo |-> low % Word]

\* "(x - a) + code" followed by "a & a", the conversion to 32 bits
SubtractAdd(x, a, code) ==
  LET low == x.lo - a.lo + code
  IN [hi |-> (x.hi - a.hi + (low \div Word)) % Word, lo |-> low % Word]

\* the callback of the reduce of _generateId:
\* "a = ((a << 5) - a) + b.charCodeAt(0); return a & a"
HashStep(a, b) == SubtractAdd(ShiftLeft5(a), a, CharCodeAt(b))

\* the reduce of _generateId over the characters i to j of s, from the left,
\* with the accumulator a, a 32-bit integer after every character; the range
\* is visited by halves, the left half first
RECURSIVE Reduce(_, _, _, _)
Reduce(a, s, i, j) ==
  IF i > j THEN a
  ELSE IF i = j THEN HashStep(a, s[i])
  ELSE LET middle == (i + j) \div 2
           left == Reduce(a, s, i, middle)
       IN CASE left.hi \in 0..(Word - 1) -> Reduce(left, s, middle + 1, j)

\* the sign bit of a 32-bit integer
IsNegative(h) == h.hi >= (Word \div 2)

\* Math.abs of a signed 32-bit integer, as an unsigned one
Abs(h) ==
  IF ~IsNegative(h) THEN h
  ELSE IF h.lo = 0 THEN [hi |-> Word - h.hi, lo |-> 0]
  ELSE [hi |-> Word - 1 - h.hi, lo |-> Word - h.lo]

\* String(n) of a non-negative integer
RECURSIVE Decimal(_)
Decimal(n) ==
  LET rest == ((n.hi % 10) * Word) + n.lo
      last == <<DigitChars[(rest % 10) + 1]>>
  IN IF n.hi = 0 /\ n.lo < 10 THEN last
     ELSE Decimal([hi |-> n.hi \div 10, lo |-> rest \div 10]) \o last

\* _generateId with the description among the hashed fields
GenerateIdWithDescription(this) ==
  LET text == StringOf(this.url) \o StringOf(this.provider)
                \o StringOf(this.title) \o StringOf(this.description)
      hash == Reduce(Zero32, text, 1, Len(text))
  IN StringOf(this.provider) \o <<"_">> \o Decimal(Abs(hash))

\* ArticleData._generateId, on the object under construction
GenerateId(this) ==
  LET text == StringOf(this.url) \o StringOf(this.provider)
                \o StringOf(this.title)
      hash == Reduce(Zero32, text, 1, Len(text))
  IN StringOf(this.provider) \o <<"_">> \o Decimal(Abs(hash))

\* Date.prototype.toISOString of the clock, read in milliseconds
ToISOString(now) ==
  <<"1", "9", "7", "0", "-", "0", "1", "-", "0", "1", "T",
    "0", "0", ":", "0", "0", ":", "0", "0", ".",
    DigitChars[((now \div 100) % 10) + 1],
    DigitChars[((now \div 10) % 10) + 1],
    DigitChars[(now % 10) + 1], "Z">>

\* "new ArticleData(data)" with the clock reading now
ArticleDataOf(data, now) ==
  LET this == [title |-> OrDefault(SanitizeString(data.title),
                                   NoTitleAvailable),
               description |-> OrDefault(SanitizeString(data.description),
                                         <<>>),
               content |-> OrDefault(SanitizeString(data.content), <<>>),
               url |-> ValidateUrl(data.url),
               urlToImage |-> OrDefault(ValidateUrl(data.urlToImage), JSNull),
               publishedAt |-> ValidateDate(data.publishedAt),
               source |-> NormalizeSource(data.source),
               provider |-> OrDefault(data.provider, UnknownProvider)]
  IN [title |-> this.title,
      description |-> this.description,
      content |-> this.content,
      url |-> this.url,
      urlToImage |-> this.urlToImage,
      publishedAt |-> this.publishedAt,
      source |-> this.source,
      provider |-> this.provider,
      \* an exception of a validator leaves the constructor before line 13
      id |-> IF Thrown \in {this.url, this.urlToImage, this.source.url}
             THEN Thrown ELSE GenerateId(this),
      createdAt |-> ToISOString(now)]

\* the constructor of ArticleData runs on a payload; the object constructed
\* before stays for comparison
NewArticleData(data, now) ==
  /\ articleData' =
       <<[data |-> data, article |-> ArticleDataOf(data, now)]>>
         \o SubSeq(articleData, 1, Min(1, Len(articleData)))
  /\ UNCHANGED <<clientVars, agent>>


\* the state after "new NewsClient()", for every setting of the two API keys
Init ==
  /\ \E gnewsKey \in {Undefined, <<"k">>}, newsapiKey \in {Undefined, <<"k">>} :
       /\ env = [GNEWS_API_KEY |-> gnewsKey, NEWSAPI_KEY |-> newsapiKey]
       /\ providers = AutoRegisterProviders(gnewsKey, newsapiKey)[1]
       /\ defaultProvider = AutoRegisterProviders(gnewsKey, newsapiKey)[2]
  /\ articleCache = [k \in {} |-> EmptyEntry]
  /\ calls = [c \in Calls |-> IdleCall]
  /\ response = NoResponse
  /\ fetched = [k \in AllKeys |-> 0]
  /\ served = [k \in AllKeys |-> Unserved]
  /\ articleData = <<>>
  /\ agent = NewAgent(TRUE)

\* ---------------------------------------------------------- specifications

\* the answers of the upstream in the runs in which calls overlap
RaceAnswers == UpstreamAnswers({0, MaxAvail})

\* calls of any kind overlap as the event loop allows
Next ==
  \/ \E q \in RaceQueries, pr \in {GNEWS, NEWSAPI}, pg \in RacePageInputs,
        lm \in RaceLimitInputs, so \in SearchOptionInputs :
       SearchNewsStart(q, pr, pg, lm, so)
  \/ \E c \in Calls : \E u \in RaceAnswers : SearchNewsResume(c, u)
  \/ \E pr \in {Null}, pg \in {Undefined}, lm \in RaceLimitInputs,
        ho \in HeadlineOptionInputs :
       GetTopHeadlinesStart(pr, pg, lm, ho)
  \/ \E c \in Calls : \E u \in RaceAnswers : GetTopHeadlinesResume(c, u)
  \/ \E name \in {GNEWS, NEWSAPI} : SetDefaultProvider(name)
  \/ ClearCache
  \/ Deliver

Spec == Init /\ [][Next]_vars

NoneInFlight == \A c \in Calls : calls[c].pc = "idle"

\* the answers of the upstream in the runs in which no calls overlap
SeqAnswers == UpstreamAnswers(0..MaxAvail)

\* each call completes before the next starts, with any valid page and limit
SeqNext ==
  \/ \E q \in SeqQueries, pr \in {GNEWS, NEWSAPI}, pg \in SeqPageInputs,
        lm \in SeqLimitInputs, so \in SearchOptionInputs :
       NoneInFlight /\ SearchNewsStart(q, pr, pg, lm, so)
  \/ \E c \in Calls : \E u \in SeqAnswers : SearchNewsResume(c, u)
  \/ \E pr \in {GNEWS, NEWSAPI}, pg \in SeqPageInputs,
        lm \in SeqLimitInputs, ho \in HeadlineOptionInputs :
       NoneInFlight /\ GetTopHeadlinesStart(pr, pg, lm, ho)
  \/ \E c \in Calls : \E u \in SeqAnswers : GetTopHeadlinesResume(c, u)
  \/ \E name \in {GNEWS, NEWSAPI} : SetDefaultProvider(name)
  \/ ClearCache
  \/ Deliver

SpecSeq == Init /\ [][SeqNext]_vars

\* the answers of the upstream in the runs over all arguments
ArgAnswers == UpstreamAnswers({0, 1})

\* each call completes before the next starts, with any of the options; a
\* search whose key the cache does not hold waits for a clearCache once the
\* cache holds MaxEntries entries
OptionNext ==
  \/ \E q \in SeqQueries, pr \in {GNEWS, NEWSAPI}, lm \in {<<"1">>},
        so \in EnumOptionInputs :
       /\ NoneInFlight
       /\ \/ CacheKey(q, pr, so) \in DOMAIN articleCache
          \/ Cardinality(DOMAIN articleCache) < MaxEntries
       /\ SearchNewsStart(q, pr, Undefined, lm, so)
  \/ \E c \in Calls : \E u \in ArgAnswers : SearchNewsResume(c, u)
  \/ \E pr \in {GNEWS, NEWSAPI}, lm \in {<<"1">>},
        ho \in CategoryOptionInputs :
       NoneInFlight /\ GetTopHeadlinesStart(pr, Undefined, lm, ho)
  \/ \E c \in Calls : \E u \in ArgAnswers : GetTopHeadlinesResume(c, u)
  \/ ClearCache
  \/ Deliver

SpecOptions == Init /\ [][OptionNext]_vars

\* headlines of any page and limit are asked for, one call after the other,
\* while searches of one query fill and clear the cache
HeadlinesNext ==
  \/ \E pr \in {GNEWS, NEWSAPI} :
       NoneInFlight /\ SearchNewsStart(<<"a">>, pr, Undefined, <<"1">>, <<>>)
  \/ \E c \in Calls : \E u \in ArgAnswers : SearchNewsResume(c, u)
  \/ \E pr \in {Null, GNEWS, NEWSAPI}, pg \in SeqPageInputs,
        lm \in SeqLimitInputs, ho \in CategoryOptionInputs :
       NoneInFlight /\ GetTopHeadlinesStart(pr, pg, lm, ho)
  \/ \E c \in Calls : \E u \in ArgAnswers : GetTopHeadlinesResume(c, u)
  \/ ClearCache
  \/ Deliver

SpecHeadlines == Init /\ [][HeadlinesNext]_vars

\* the state after "new NewsClient()" with each API key not set, empty, blank
\* or set
RegistryInit ==
  /\ \E gnewsKey \in {Undefined, <<>>, <<" ">>, <<"k">>},
        newsapiKey \in {Undefined, <<>>, <<" ">>, <<"k">>} :
       /\ env = [GNEWS_API_KEY |-> gnewsKey, NEWSAPI_KEY |-> newsapiKey]
       /\ providers = AutoRegisterProviders(gnewsKey, newsapiKey)[1]
       /\ defaultProvider = AutoRegisterProviders(gnewsKey, newsapiKey)[2]
  /\ articleCache = [k \in {} |-> EmptyEntry]
  /\ calls = [c \in Calls |-> IdleCall]
  /\ response = NoResponse
  /\ fetched = [k \in AllKeys |-> 0]
  /\ served = [k \in AllKeys |-> Unserved]
  /\ articleData = <<>>
  /\ agent = NewAgent(TRUE)

SpecRegistry == RegistryInit /\ [][HeadlinesNext]_vars

\* a route has caught an error: any error of the taxonomy, or a plain Error
\* with any message
ErrInit ==
  LET phrases == {"Invalid sortBy", "Invalid searchIn", "Invalid category",
                  "not properly configured", "API key", "not configured",
                  "Provider '' not found", "not found", "rate limit",
                  "quota exceeded"}
      messages == {m \in SUBSET phrases :
                     "Provider '' not found" \in m => "not found" \in m}
      thrown ==
        {InvalidQueryError(q) : q \in (Queries \cup PageInputs) \ {Undefined}}
          \cup {ValidationError(k) : k \in DOMAIN EnumValues}
          \cup {ProviderNotFoundError(n, a) :
                  n \in {GNEWS, NEWSAPI, GUARDIAN},
                  a \in {<<>>, <<GNEWS>>, <<NEWSAPI>>, <<GNEWS, NEWSAPI>>}}
          \cup {NoProvidersAvailableError, ExternalAPIError("GNews"),
                NewsError("ProviderConfigurationError",
                          {"not properly configured"}, 503),
                [NewsError("RateLimitError", {}, 429) EXCEPT
                   !.providerName = GNEWS]}
          \cup {[PlainError EXCEPT !.message = m] : m \in messages}
  IN /\ \E gnewsKey \in {Undefined, <<"k">>}, newsapiKey \in {Undefined, <<"k">>} :
          /\ env = [GNEWS_API_KEY |-> gnewsKey, NEWSAPI_KEY |-> newsapiKey]
          /\ providers = AutoRegisterProviders(gnewsKey, newsapiKey)[1]
          /\ defaultProvider = AutoRegisterProviders(gnewsKey, newsapiKey)[2]
     /\ articleCache = [k \in {} |-> EmptyEntry]
     /\ calls = [c \in Calls |-> IdleCall]
     /\ fetched = [k \in AllKeys |-> 0]
     /\ served = [k \in AllKeys |-> Unserved]
     /\ articleData = <<>>
     /\ agent = NewAgent(TRUE)
     /\ \E e \in thrown : response = Threw("route", NoRequest, e)

ErrNext == RouteCatch \/ Deliver

SpecErrors == ErrInit /\ [][ErrNext]_vars

\* an AgentSynopsis with caching enabled or not, on an empty store
SynopsisInit ==
  /\ env = [GNEWS_API_KEY |-> Undefined, NEWSAPI_KEY |-> Undefined]
  /\ providers = <<>>
  /\ defaultProvider = Null
  /\ articleCache = [k \in {} |-> EmptyEntry]
  /\ calls = [c \in Calls |-> IdleCall]
  /\ response = NoResponse
  /\ fetched = [k \in AllKeys |-> 0]
  /\ served = [k \in AllKeys |-> Unserved]
  /\ articleData = <<>>
  /\ \E cacheEnabled \in BOOLEAN : agent = NewAgent(cacheEnabled)

\* articles are analysed and deleted, each call completing before the next
\* starts
SynopsisNext ==
  \/ \E url \in {<<"u">>, <<"v">>, <<"w">>},
        valid, connected, found, analysed, saved \in BOOLEAN :
       AnalyzeArticle(url, valid, connected, found, analysed, saved)
  \/ \E url \in {<<"u">>, <<"v">>, <<"w">>} : DeleteArticle(url)
  \/ \E id \in 1..MaxDocs,
        connected, looked, deleted, valid, reconnected, analysed,
        saved \in BOOLEAN :
       Reanalyze(id, connected, looked, deleted, valid, reconnected, analysed,
                 saved)

SpecSynopsis == SynopsisInit /\ [][SynopsisNext]_vars

\* the calls on the DatabaseManager and on the LLMClient of the agent, and the
\* settling of what they await, in any order
ServicesNext ==
  \/ \E maxRetries \in 0..MaxRetries : Retry(maxRetries)
  \/ \E ok \in BOOLEAN : RetrySettle(ok)
  \/ Connect
  \/ \E a \in 1..MaxAttempts, ok \in BOOLEAN : PerformConnection(a, ok)
  \/ \E ok \in BOOLEAN : Disconnect(ok)
  \/ EnsureConnection
  \/ \E up \in BOOLEAN : ConnectionEvent(up)

SpecServices == SynopsisInit /\ [][ServicesNext]_vars

\* the promise that _retry awaits settles: the request of fn is answered or
\* fails, and the timer of the delay fires
SpecServicesLive ==
  SpecServices /\ WF_vars(\E ok \in BOOLEAN : RetrySettle(ok))

\* each call completes before the next starts, with any argument, valid or not
ArgNext ==
  \/ \E q \in Queries, pr \in ProviderInputs, pg \in PageInputs,
        lm \in LimitInputs, so \in SearchOptionInputs :
       NoneInFlight /\ SearchNewsStart(q, pr, pg, lm, so)
  \/ \E c \in Calls : \E u \in ArgAnswers : SearchNewsResume(c, u)
  \/ \E pr \in ProviderInputs, pg \in PageInputs, lm \in LimitInputs,
        ho \in HeadlineOptionInputs :
       NoneInFlight /\ GetTopHeadlinesStart(pr, pg, lm, ho)
  \/ \E c \in Calls : \E u \in ArgAnswers : GetTopHeadlinesResume(c, u)
  \/ \E name \in {GNEWS, NEWSAPI, GUARDIAN} : SetDefaultProvider(name)
  \/ ClearCache
  \/ Deliver

SpecArgs == Init /\ [][ArgNext]_vars

\* payloads handed to the constructor: the title missing, plain or in need
\* of sanitizing, the url one that parses or not, the provider and the
\* description present or missing
Titles == {Undefined, <<"x">>, <<" ", "A", "\t", " ", "b", "\n">>}
Urls == {<<"a">>, <<"h", "t", "t", "p", ":", "/", "/", "a", ".", "i", "o">>}
ProviderFields == {Undefined, GNewsName}
Descriptions == {Undefined, <<"d">>}
Sources == {[isObject |-> TRUE, name |-> <<" ", "S">>, url |-> JSNull]}

Payloads ==
  [title : Titles, description : Descriptions, content : {<<>>},
   url : Urls, urlToImage : {Undefined},
   publishedAt : {<<"2", "0", "2", "4">>}, source : Sources,
   provider : ProviderFields]

Clock == 0..MaxClock

\* the state in which no client exists and no article has been constructed
NormInit ==
  /\ env = [GNEWS_API_KEY |-> Undefined, NEWSAPI_KEY |-> Undefined]
  /\ providers = <<>>
  /\ defaultProvider = Null
  /\ articleCache = [k \in {} |-> EmptyEntry]
  /\ calls = [c \in Calls |-> IdleCall]
  /\ response = NoResponse
  /\ fetched = [k \in AllKeys |-> 0]
  /\ served = [k \in AllKeys |-> Unserved]
  /\ articleData = <<>>
  /\ agent = NewAgent(TRUE)

\* payloads are normalized one after the other
NormNext ==
  \E data \in Payloads, now \in Clock : NewArticleData(data, now)

SpecNorm == NormInit /\ [][NormNext]_vars

\* payloads with fields missing, of another type than string, malformed and
\* well formed
HttpAIo == <<"h", "t", "t", "p", ":", "/", "/", "a", ".", "i", "o">>
DegradePayloads ==
  LET titles == {Undefined, JSNumber, <<" ", "\t">>, <<"x">>}
      urls == {Undefined, JSNull, JSNumber, <<"a">>, <<"a", ".", "i", "o">>,
               HttpAIo}
      images == {Undefined, <<"/", "i">>, HttpAIo}
      dates == {Undefined, JSNumber, <<>>, <<"x">>, <<"2", "0", "2", "4">>}
      sources ==
        {[isObject |-> FALSE, name |-> Undefined, url |-> Undefined],
         [isObject |-> TRUE, name |-> Undefined, url |-> <<"a">>],
         [isObject |-> TRUE, name |-> <<" ", "S">>, url |-> HttpAIo]}
  IN [title : titles, description : {Undefined}, content : {<<>>},
      url : urls, urlToImage : images, publishedAt : dates, source : sources,
      provider : {GNewsName}]

\* one payload is normalized by a process that has normalized none before
DegradeNext ==
  \E data \in DegradePayloads, now \in Clock :
    articleData = <<>> /\ NewArticleData(data, now)

SpecDegrade == NormInit /\ [][DegradeNext]_vars

\* ------------------------------------------------------------------ claims

\* searchNews calls suspended at their fetch for key k, the cache not having
\* been cleared since they started
InFlightFor(k) ==
  Cardinality({c \in Calls : /\ calls[c].pc = "search"
                            /\ calls[c].key = k
                            /\ ~calls[c].detached})

SearchAnswered == response.op = "search" /\ response.outcome = "ok"

\* C1: when no two calls overlap, the calls on one gnews cache key invoke the
\* provider at most once between two clears, whatever pages and limits they
\* ask for and also when the fetch returned no article: the successful
\* fetches made and the fetch under way are together at most one.
C1_OneFetchWithoutOverlap ==
  \A k \in AllKeys : k.provider = GNEWS => fetched[k] + InFlightFor(k) <= 1

\* C1 witness: a later page of a gnews key is answered without a fetch from
\* an entry whose single fetch returned no article
C1_Witness ==
  /\ SearchAnswered
  /\ ~response.fetchedNow
  /\ response.key.provider = GNEWS
  /\ fetched[response.key] = 1
  /\ response.cached = <<>>
  /\ response.body.pagination.currentPage = 2

\* C2: calls on one key that start before the first fetch for the key has
\* completed invoke the provider at most once: no two fetches for one key
\* are under way at the same time.
C2_AtMostOneFetchUnderWay == \A k \in AllKeys : InFlightFor(k) <= 1

\* C3: a page p with limit L of an entry holding n articles is exactly the
\* cached articles at the indices (p-1)*L .. (p-1)*L+L-1, in order, and
\* actualResults is their number min(L, max(0, n-(p-1)*L)); with n = 8 and
\* L = 5 on gnews page 1 has 5 articles, hasNextPage and totalResults 8, page
\* 2 has 3 articles and no next page, and the key was fetched once.
C3_PageIsCachedSlice ==
  SearchAnswered =>
    LET body == response.body
        p == body.pagination.currentPage
        L == body.pagination.limit
        n == Len(response.cached)
        expected == Min(L, Max(0, n - (p - 1) * L))
    IN /\ ~response.stale =>
            response.cached = articleCache[response.key].articles
       /\ p = ParseInt(PageOrDefault(response.request.page)).v
       /\ L = ParseInt(LimitOrDefault(response.request.limit)).v
       /\ Len(body.articles) = expected
       /\ body.actualResults = expected
       /\ body.pagination.actualResults = expected
       /\ \A i \in 1..expected : body.articles[i] = response.cached[(p - 1) * L + i]
       /\ (response.key.provider = GNEWS /\ n = 8 /\ L = 5 /\ ~response.stale) =>
            /\ fetched[response.key] = 1
            /\ body.totalResults = 8
            /\ p = 1 => Len(body.articles) = 5 /\ body.pagination.hasNextPage
            /\ p = 2 => Len(body.articles) = 3 /\ ~body.pagination.hasNextPage

\* C3 witness: page 2 of 8 cached gnews articles with limit 5, answered from
\* the cache
C3_Witness ==
  /\ SearchAnswered
  /\ ~response.fetchedNow
  /\ response.key.provider = GNEWS
  /\ Len(response.cached) = 8
  /\ response.body.pagination.limit = 5
  /\ response.body.pagination.currentPage = 2
  /\ Len(response.body.articles) = 3

\* C4: the pagination of every searchNews and getTopHeadlines response is
\* consistent: totalPages is the ceiling of totalResults / limit when
\* totalResults > 0, hasPreviousPage is currentPage > 1, previousPage is
\* currentPage - 1 if there is a previous page and null otherwise, nextPage
\* is currentPage + 1 if hasNextPage and null otherwise.
C4_PaginationConsistent ==
  (response.op \in {"search", "headlines"} /\ response.outcome = "ok") =>
    LET pg == response.body.pagination
    IN /\ pg.totalResults > 0 =>
            /\ pg.totalPages * pg.limit >= pg.totalResults
            /\ (pg.totalPages - 1) * pg.limit < pg.totalResults
       /\ pg.hasPreviousPage = (pg.currentPage > 1)
       /\ pg.previousPage =
            IF pg.hasPreviousPage THEN pg.currentPage - 1 ELSE NullPage
       /\ pg.nextPage = IF pg.hasNextPage THEN pg.currentPage + 1 ELSE NullPage

\* C4 witness: a page in the middle of a searchNews result that has a rest
C4_Witness ==
  /\ SearchAnswered
  /\ response.body.pagination.hasNextPage
  /\ response.body.pagination.hasPreviousPage
  /\ response.body.pagination.totalResults % response.body.pagination.limit # 0

\* C4 witness of the headlines path
C4_HeadlinesWitness ==
  /\ response.op = "headlines"
  /\ response.outcome = "ok"
  /\ response.body.pagination.hasNextPage
  /\ response.body.pagination.hasPreviousPage

\* a query that is missing, empty or made of whitespace only
BlankQuery(query) ==
  query = Undefined \/ \A i \in 1..Len(query) : query[i] = " "

\* a page or limit that is given and does not parse as an integer >= 1
NoPositiveInteger(x) ==
  x # Undefined /\ (ParseInt(x).nan \/ ParseInt(x).v < 1)

\* the arguments of a searchNews or getTopHeadlines call are refused
ArgsRefused(op, request) ==
  \/ op = "search" /\ BlankQuery(request.query)
  \/ NoPositiveInteger(request.page)
  \/ NoPositiveInteger(request.limit)

\* the value the validation error of a refused call carries
OffendingValue(op, request) ==
  IF op = "search" /\ BlankQuery(request.query)
  THEN (IF request.query = Undefined THEN <<>> ELSE request.query)
  ELSE IF NoPositiveInteger(request.page) THEN request.page
  ELSE request.limit

IsCall == response.op \in {"search", "headlines"}

C5_Refused ==
  /\ (IsCall /\ ArgsRefused(response.op, response.request)) =>
       /\ response.outcome = "error"
       /\ response.error.name = "InvalidQueryError"
       /\ response.error.statusCode = 400
       /\ response.error.value = OffendingValue(response.op, response.request)
       /\ ~response.fetchedNow
  /\ \A c \in Calls :
       calls[c].pc # "idle" => ~ArgsRefused(calls[c].pc, calls[c].request)

\* C5: a searchNews call with a missing, empty or blank query, or a
\* searchNews or getTopHeadlines call whose page or limit does not parse as
\* an integer >= 1, throws a validation error of status 400 that carries the
\* offending value; no call with such arguments reaches a provider (whatever
\* provider it names), and the step leaves the cache, the registry, the
\* default provider and the suspended calls as they were.
C5_ValidationFirst ==
  [][/\ C5_Refused'
     /\ (IsCall /\ ArgsRefused(response.op, response.request))' =>
          UNCHANGED <<articleCache, providers, defaultProvider, calls>>]_vars

\* C5 witness: a search with page "0" and an unregistered provider is
\* refused for its page
C5_Witness ==
  /\ response.op = "search"
  /\ response.request.page = <<"0">>
  /\ response.request.provider = GUARDIAN
  /\ ~BlankQuery(response.request.query)
  /\ response.error.name = "InvalidQueryError"
  /\ response.error.value = <<"0">>

\* the call names a provider that is not registered
NamesUnregistered(request) ==
  request.provider # Null /\ ~Registered(request.provider)

ProviderNotFound(request) ==
  /\ response.outcome = "error"
  /\ response.error.name = "ProviderNotFoundError"
  /\ response.error.statusCode = 404
  /\ response.error.providerName = request.provider
  /\ response.error.availableProviders = providers
  /\ ~response.fetchedNow

\* C6 as stated: every searchNews or getTopHeadlines call that names an
\* unregistered provider fails with ProviderNotFoundError listing the
\* registered names.
C6_UnregisteredAlwaysNotFound ==
  (IsCall /\ NamesUnregistered(response.request)) =>
    ProviderNotFound(response.request)

C6_NotFound ==
  /\ (/\ IsCall
      /\ NamesUnregistered(response.request)
      /\ ~ArgsRefused(response.op, response.request)) =>
       ProviderNotFound(response.request)
  /\ \A c \in Calls :
       calls[c].pc # "idle" => ~NamesUnregistered(calls[c].request)

\* C6 amended: a searchNews or getTopHeadlines call with a valid query, page
\* and limit that names an unregistered provider fails with
\* ProviderNotFoundError (404) whose availableProviders is the list of the
\* registered names; no provider is invoked and the cache, the registry and
\* the suspended calls stay as they were.
C6_UnregisteredNotFound ==
  [][/\ C6_NotFound'
     /\ (IsCall /\ NamesUnregistered(response.request))' =>
          UNCHANGED <<articleCache, providers, defaultProvider, calls>>]_vars

\* C6 witness: a valid search naming guardian while gnews and newsapi are
\* registered
C6_Witness ==
  /\ response.op = "search"
  /\ response.request.provider = GUARDIAN
  /\ response.error.name = "ProviderNotFoundError"
  /\ response.error.availableProviders = <<GNEWS, NEWSAPI>>

C7_Default ==
  /\ response.op = "setDefault" =>
       IF Registered(response.request.provider)
       THEN /\ response.outcome = "ok"
            /\ defaultProvider = response.request.provider
       ELSE ProviderNotFound(response.request)
  /\ IF providers = <<>> THEN defaultProvider = Null
     ELSE Registered(defaultProvider)

\* C7: setDefaultProvider with an unregistered name fails with
\* ProviderNotFoundError (404) listing the registered names and leaves the
\* default as it was; with a registered name it makes the name the default;
\* the default is always null (empty registry) or a registered name.
C7_SetDefaultProvider ==
  [][/\ C7_Default'
     /\ (response.op = "setDefault" /\ response.outcome = "error")' =>
          UNCHANGED defaultProvider]_vars

\* C7 witness: newsapi was made the default, and setting an unregistered name
\* then failed
C7_Witness ==
  /\ response.op = "setDefault"
  /\ response.outcome = "error"
  /\ providers = <<GNEWS, NEWSAPI>>
  /\ defaultProvider = NEWSAPI

\* C8: between two clears all the responses for one key are pages of one
\* article sequence, the one the first response was cut from.
C8_OneSequenceServed ==
  (SearchAnswered /\ ~response.stale) =>
    LET pg == response.body.pagination
        start == (pg.currentPage - 1) * pg.limit
        first == served[response.key].articles
    IN /\ served[response.key].set
       /\ \A i \in 1..pg.limit :
            IF start + i <= Len(first)
            THEN /\ i <= Len(response.body.articles)
                 /\ response.body.articles[i] = first[start + i]
            ELSE i > Len(response.body.articles)

\* a successful fetch has filled the entry of key k
IsPopulated(k) == k \in DOMAIN articleCache /\ fetched[k] > 0

\* C9: an entry that a fetch has filled is not changed or removed by any
\* step but clearCache, which removes every entry and leaves the registry and
\* the default provider; and a search answered from the cache is answered
\* from an entry that a fetch since the last clear has filled.
C9_NeverRefreshed ==
  [][/\ \A k \in DOMAIN articleCache :
          IsPopulated(k) =>
            \/ k \in DOMAIN articleCache' /\ articleCache'[k] = articleCache[k]
            \/ /\ DOMAIN articleCache' = {}
               /\ UNCHANGED <<providers, defaultProvider>>
     /\ (SearchAnswered /\ ~response.fetchedNow)' =>
          IsPopulated(response.key)']_vars

\* the decimal numeral d denotes a number of the range 0..2^31
RECURSIVE AtMost(_, _)
AtMost(d, top) ==
  \/ d = <<>>
  \/ DigitVal(Head(d)) < DigitVal(Head(top))
  \/ DigitVal(Head(d)) = DigitVal(Head(top)) /\ AtMost(Tail(d), Tail(top))

TwoToThe31 == <<"2", "1", "4", "7", "4", "8", "3", "6", "4", "8">>

IsNumeralUpTo2To31(d) ==
  /\ d # <<>>
  /\ \A i \in 1..Len(d) : IsDigit(d[i])
  /\ Len(d) > 1 => d[1] # "0"
  /\ \/ Len(d) < Len(TwoToThe31)
     \/ Len(d) = Len(TwoToThe31) /\ AtMost(d, TwoToThe31)

\* the id is the provider, "_" and a numeral of the range 0..2^31
IdWellFormed(article) ==
  LET n == Len(article.provider)
  IN /\ Len(article.id) > n + 1
     /\ SubSeq(article.id, 1, n) = article.provider
     /\ article.id[n + 1] = "_"
     /\ IsNumeralUpTo2To31(SubSeq(article.id, n + 2, Len(article.id)))

SameIdFields(d, e) ==
  d.url = e.url /\ d.provider = e.provider /\ d.title = e.title

\* C10: two payloads with the same url, provider and title get the same id,
\* whatever their other fields and whenever they are normalized, and every id
\* is the provider, "_" and the absolute value of a 32-bit signed integer, a
\* number of the range 0..2^31.
C10_IdDeterministic ==
  /\ \A i \in 1..Len(articleData), j \in 1..Len(articleData) :
       SameIdFields(articleData[i].data, articleData[j].data) =>
         articleData[i].article.id = articleData[j].article.id
  /\ \A i \in 1..Len(articleData) : IdWellFormed(articleData[i].article)

\* C10 witness: two payloads that differ in the description only, normalized
\* at different times, with a hash that is negative before Math.abs
C10_Witness ==
  /\ Len(articleData) = 2
  /\ SameIdFields(articleData[1].data, articleData[2].data)
  /\ articleData[1].data.description # articleData[2].data.description
  /\ articleData[1].article.createdAt # articleData[2].article.createdAt
  /\ articleData[1].article.id = articleData[2].article.id
  /\ LET this == articleData[1].article
         text == StringOf(this.url) \o this.provider \o this.title
     IN IsNegative(Reduce(Zero32, text, 1, Len(text)))

\* the texts among the payloads that are well-formed absolute URLs
WellFormedUrls == {HttpAIo}

\* what a url field becomes
UrlOrNull(url) == IF url \in WellFormedUrls THEN url ELSE JSNull

Blank(text) == \A i \in 1..Len(text) : text[i] \in Whitespace

\* the parts of C11 on url, urlToImage, source and title, and that no field
\* holds an exception
C11_Degrades(e) ==
  /\ e.article.url = UrlOrNull(e.data.url)
  /\ e.article.urlToImage = UrlOrNull(e.data.urlToImage)
  /\ ~e.data.source.isObject =>
       e.article.source = [name |-> UnknownSource, url |-> JSNull]
  /\ e.article.source.url = UrlOrNull(e.data.source.url)
  /\ (~IsString(e.data.title) \/ Blank(e.data.title)) =>
       e.article.title = NoTitleAvailable
  /\ e.article.title # <<>>
  /\ \A f \in {e.article.url, e.article.urlToImage, e.article.source.url,
               e.article.title, e.article.id} : f # Thrown
  /\ (~IsString(e.data.publishedAt) \/ e.data.publishedAt = <<>>) =>
       e.article.publishedAt = NullDate

UnparseableDates == {<<"x">>}

\* C11 as stated: normalization never throws; a url or urlToImage that is
\* missing, no string or not well formed becomes null, a source that is no
\* object becomes {Unknown, null}, a missing or blank title becomes the
\* placeholder, and a publishedAt that is missing, no string or unparseable
\* becomes null.
C11_InvalidDateBecomesNull ==
  \A i \in 1..Len(articleData) :
    /\ C11_Degrades(articleData[i])
    /\ articleData[i].data.publishedAt \in UnparseableDates =>
         articleData[i].article.publishedAt = NullDate

\* C11 amended: as stated, except that an unparseable publishedAt string
\* becomes an invalid date value, which is not null.
C11_DegradesToDefaults ==
  \A i \in 1..Len(articleData) :
    /\ C11_Degrades(articleData[i])
    /\ articleData[i].data.publishedAt \in UnparseableDates =>
         /\ ~articleData[i].article.publishedAt.isNull
         /\ ~articleData[i].article.publishedAt.valid

\* C11 witness: a payload whose url does not parse, whose title is blank,
\* whose source is no object and whose publishedAt is unparseable
C11_Witness ==
  /\ Len(articleData) = 1
  /\ articleData[1].data.url = <<"a", ".", "i", "o">>
  /\ Blank(articleData[1].data.title) /\ IsString(articleData[1].data.title)
  /\ ~articleData[1].data.source.isObject
  /\ articleData[1].data.publishedAt \in UnparseableDates
  /\ articleData[1].article.url = JSNull
  /\ articleData[1].article.title = NoTitleAvailable

C12_Resolved ==
  (IsCall /\ ~ArgsRefused(response.op, response.request)) =>
    /\ (response.request.provider = Null /\ defaultProvider = Null) =>
         /\ response.outcome = "error"
         /\ response.error.name = "NoProvidersAvailableError"
         /\ response.error.statusCode = 503
    /\ (response.request.provider # Null
          /\ ~Registered(response.request.provider)) =>
         /\ response.outcome = "error"
         /\ response.error.name = "ProviderNotFoundError"
    /\ response.error.name = "NoProvidersAvailableError" =>
         /\ response.request.provider = Null
         /\ providers = <<>>

\* C12: a call that names no provider uses the default of the moment; when
\* there is no default (the registry is empty) it fails with
\* NoProvidersAvailableError (503), while a call naming an unregistered
\* provider fails with ProviderNotFoundError, also when the registry is empty.
C12_DefaultOrNoProviders ==
  [][/\ C12_Resolved'
     /\ \A c \in Calls :
          (/\ calls[c].pc = "idle"
           /\ calls'[c].pc # "idle"
           /\ calls'[c].request.provider = Null) =>
            /\ defaultProvider # Null
            /\ calls'[c].provider = defaultProvider]_vars

\* C12 witness: a call without a provider name failed on the empty registry
C12_Witness ==
  /\ IsCall
  /\ response.request.provider = Null
  /\ providers = <<>>
  /\ response.error.name = "NoProvidersAvailableError"

\* C13: a failure of the upstream during searchNews or getTopHeadlines
\* reaches the caller as ExternalAPIError (502) carrying the name of the
\* provider it came from and the original error, never as a plain Error.
C13_UpstreamFailureWrapped ==
  (IsCall /\ response.outcome = "error" /\ response.external) =>
    /\ response.error.name = "ExternalAPIError"
    /\ response.error.statusCode = 502
    /\ response.error.providerName # Null
    /\ response.error.originalError # "none"

\* the provider was handed an option outside its enum: sortBy or searchIn in
\* a search, category in a headlines call
OutsideVocabulary ==
  /\ IsCall
  /\ response.fetchedNow
  /\ \E key \in (IF response.op = "search" THEN {"sortBy", "searchIn"}
                 ELSE {"category"}) : InvalidOption(response.options, key)

\* C14: for every provider a sortBy, searchIn or category outside its enum
\* makes the call fail with ValidationError (400), and the upstream is not
\* called.
C14_InvalidOptionRefused ==
  OutsideVocabulary =>
    /\ response.outcome = "error"
    /\ response.error.name = "ValidationError"
    /\ response.error.statusCode = 400
    /\ ~response.external

\* the status of each class of the taxonomy
TaxonomyStatus ==
  [ValidationError |-> 400, InvalidQueryError |-> 400,
   ProviderNotFoundError |-> 404, NoProvidersAvailableError |-> 503,
   ProviderConfigurationError |-> 503, RateLimitError |-> 429,
   ExternalAPIError |-> 502]

\* C15: every error of the taxonomy carries the status of its class; its
\* toJSON() is exactly {success: false, error, type, statusCode}; and
\* newsErrorHandler answers any error with the HTTP status that is the
\* statusCode of the JSON body it sends.
C15_StatusIsBodyStatus ==
  response.outcome = "error" =>
    /\ response.error.name \in DOMAIN TaxonomyStatus =>
         /\ response.error.statusCode = TaxonomyStatus[response.error.name]
         /\ DOMAIN ToJSON(response.error) =
              {"success", "error", "type", "statusCode"}
         /\ ToJSON(response.error).success = FALSE
         /\ ToJSON(response.error).error = response.error.message
         /\ ToJSON(response.error).type = response.error.name
         /\ ToJSON(response.error).statusCode = response.error.statusCode
    /\ response.http.sent =>
         /\ response.http.status = response.http.json.statusCode
         /\ DOMAIN response.http.json =
              {"success", "error", "type", "statusCode"}
         /\ response.http.json.success = FALSE
         /\ response.error.name # "Error" =>
              response.http.json = ToJSON(response.error)
         /\ response.http.json.type \in DOMAIN TaxonomyStatus =>
              response.http.status = TaxonomyStatus[response.http.json.type]

\* C15 witness: a plain Error whose message speaks of a rate limit was
\* answered with status 429
C15_Witness ==
  /\ response.error.name = "Error"
  /\ response.error.message = {"rate limit"}
  /\ response.http.sent
  /\ response.http.status = 429
  /\ response.http.json.type = "RateLimitError"

\* a getTopHeadlines call whose page, limit and provider are accepted
HeadlinesAccepted ==
  /\ response.op = "headlines"
  /\ ~ArgsRefused(response.op, response.request)
  /\ response.error.name \notin {"ProviderNotFoundError",
                                 "NoProvidersAvailableError"}

C16_Invoked ==
  HeadlinesAccepted =>
    LET pageNum == ParseInt(PageOrDefault(response.request.page)).v
        limitNum == ParseInt(LimitOrDefault(response.request.limit)).v
    IN /\ response.fetchedNow
       /\ response.max = limitNum
       /\ response.offset = (pageNum - 1) * limitNum
       /\ response.key = NoKey
       /\ response.cached = <<>>

\* C16: getTopHeadlines leaves the query cache alone: every call that is
\* accepted invokes provider.getTopHeadlines, once, with max = limit and
\* offset = (page - 1) * limit, also when the same call was made before, and
\* no step of a getTopHeadlines call changes a cache entry.
C16_HeadlinesBypassCache ==
  [][/\ C16_Invoked'
     /\ (\/ response'.op = "headlines" /\ response.op = "none"
         \/ \E c \in Calls : calls[c].pc = "idle" /\ calls'[c].pc = "headlines") =>
          UNCHANGED <<articleCache, fetched, served>>
     /\ \A c \in Calls :
          (calls[c].pc = "headlines" /\ calls'[c].pc = "idle") =>
            /\ response'.op = "headlines"
            /\ response'.fetchedNow
            /\ response'.request = calls[c].request]_vars

\* C16 witness: the headlines of page 2 were delivered by the provider while
\* the cache held a populated entry
C16_Witness ==
  /\ response.op = "headlines"
  /\ response.outcome = "ok"
  /\ response.offset > 0
  /\ response.body.articles # <<>>
  /\ \E k \in DOMAIN articleCache : articleCache[k].articles # <<>>

\* C17: with caching enabled, analyzeArticle for an article whose url is
\* stored returns the stored analysis, does not call the LLM and does not
\* write to the store.
C17_StoredNotAnalysedAgain ==
  (/\ agent.last.op = "analyze"
   /\ agent.cacheEnabled
   /\ agent.last.stored
   /\ agent.last.outcome # "ValidationError") =>
    /\ ~agent.last.llmCalled
    /\ ~agent.last.wrote

\* C18: every searchNews response of gnews reports as totalResults the
\* number of cached articles, never the total the upstream reported, and
\* hasNextPage exactly when the cached articles are more than page * limit, so
\* not at the page of the last cached article nor at any page beyond it.
C18_GNewsTotalIsCachedCount ==
  (SearchAnswered /\ response.key.provider = GNEWS) =>
    LET pg == response.body.pagination
        cached == Len(response.cached)
    IN /\ response.body.totalResults = cached
       /\ pg.totalResults = cached
       /\ pg.hasNextPage <=> cached > pg.currentPage * pg.limit
       /\ pg.currentPage * pg.limit >= cached => ~pg.hasNextPage

\* C18 witness: a page beyond the last cached article of a gnews entry whose
\* upstream reported a larger total
C18_Witness ==
  /\ SearchAnswered
  /\ ~response.stale
  /\ response.key.provider = GNEWS
  /\ articleCache[response.key].totalArticles > Len(response.cached)
  /\ response.cached # <<>>
  /\ (response.body.pagination.currentPage - 1) * response.body.pagination.limit
       >= Len(response.cached)
  /\ ~response.body.pagination.hasNextPage

\* C19: the fetch that fills a cache entry asks for 10 articles on gnews,
\* whatever page and limit were requested, and for max(page * limit,
\* 2 * limit) on any other provider, page and limit being those of the call
\* that fetches; the entry records that size, and after the fetch its hasMore
\* is false on gnews.
C19_FetchSize ==
  /\ (response.op = "search" /\ response.fetchedNow) =>
       LET pageNum == ParseInt(PageOrDefault(response.request.page)).v
           limitNum == ParseInt(LimitOrDefault(response.request.limit)).v
       IN /\ response.max =
               IF response.key.provider = GNEWS THEN 10
               ELSE Max(pageNum * limitNum, 2 * limitNum)
          /\ (response.outcome = "ok" /\ ~response.stale) =>
               /\ articleCache[response.key].lastFetchSize = response.max
               /\ response.key.provider = GNEWS =>
                    ~articleCache[response.key].hasMore
  /\ \A k \in DOMAIN articleCache :
       (k.provider = GNEWS /\ fetched[k] > 0) => ~articleCache[k].hasMore

\* C19 witness: the fetch for page 3 with limit 5 of a gnews key asked for 10
\* articles
C19_Witness ==
  /\ SearchAnswered
  /\ response.fetchedNow
  /\ response.key.provider = GNEWS
  /\ response.body.pagination.currentPage * response.body.pagination.limit > 10
  /\ response.max = 10
  /\ response.cached # <<>>
  /\ ~articleCache[response.key].hasMore

\* C19 witness on newsapi: the fetch for page 3 asked for page * limit articles
C19_NewsAPIWitness ==
  /\ SearchAnswered
  /\ response.fetchedNow
  /\ response.key.provider = NEWSAPI
  /\ response.body.pagination.currentPage = 3
  /\ response.max = 3 * response.body.pagination.limit

\* the name/value pairs of an options object, without their order
PairsOf(options) == {options[i] : i \in 1..Len(options)}

\* two cache keys of the same query, provider and option name/value pairs
SameSearch(k1, k2) ==
  /\ k1.query = k2.query
  /\ k1.provider = k2.provider
  /\ PairsOf(k1.options) = PairsOf(k2.options)

\* C20: the cache key does not depend on the order in which the search
\* options are given: calls with the same trimmed query, provider and option
\* name/value pairs use one cache entry, so that between two clears only one
\* of them fetches.
C20_KeyIgnoresOptionOrder ==
  /\ \A k1, k2 \in DOMAIN articleCache : SameSearch(k1, k2) => k1 = k2
  /\ \A k1, k2 \in AllKeys :
       (SameSearch(k1, k2) /\ fetched[k1] > 0 /\ fetched[k2] > 0) => k1 = k2

\* an API key that is a string and not empty
NonEmpty(apiKey) == apiKey # Undefined /\ apiKey # <<>>

\* C21: the client constructed registers a provider exactly when its
\* credential is not empty; the first provider registered is the default and
\* the registration of the second leaves it; getAvailableProviders lists the
\* registered names in the order of registration, gnews before newsapi.
C21_RegisteredByCredential ==
  /\ Registered(GNEWS) <=> NonEmpty(env.GNEWS_API_KEY)
  /\ Registered(NEWSAPI) <=> NonEmpty(env.NEWSAPI_KEY)
  /\ getAvailableProviders =
       (IF NonEmpty(env.GNEWS_API_KEY) THEN <<GNEWS>> ELSE <<>>)
         \o (IF NonEmpty(env.NEWSAPI_KEY) THEN <<NEWSAPI>> ELSE <<>>)
  /\ defaultProvider =
       IF providers = <<>> THEN Null ELSE getAvailableProviders[1]
  /\ response.error.name = "ProviderNotFoundError" =>
       response.error.availableProviders = getAvailableProviders

\* C21 witness: both keys are set, one of them blank, gnews is the default,
\* and a call without provider name was answered
C21_Witness ==
  /\ env.GNEWS_API_KEY = <<" ">>
  /\ env.NEWSAPI_KEY = <<"k">>
  /\ providers = <<GNEWS, NEWSAPI>>
  /\ defaultProvider = GNEWS
  /\ response.op = "headlines"
  /\ response.outcome = "ok"
  /\ response.request.provider = Null

\* C22: a searchNews or getTopHeadlines whose upstream answered that the
\* quota is exhausted fails with RateLimitError (429) carrying the name of
\* the provider, and with no other kind of error.
C22_QuotaIsRateLimitError ==
  (IsCall /\ response.external /\ response.upstream = 429) =>
    /\ response.outcome = "error"
    /\ response.error.name = "RateLimitError"
    /\ response.error.statusCode = 429
    /\ response.error.providerName \in {GNEWS, NEWSAPI}

\* C23: on the newsapi path, which filters the normalized articles by
\* isValid(), an upstream answer of zero or more articles makes the call
\* succeed: it returns the articles that passed the filter, and a provider
\* that answered 200 never makes the call fail.
C23_FilteredArticlesReturned ==
  (IsCall /\ response.external /\ response.upstream = 200) =>
    /\ response.outcome = "ok"
    /\ response.body.provider \in {GNEWS, NEWSAPI}

\* a searchNews whose fetch from the provider failed has just thrown
FetchFailed ==
  /\ response.op = "search"
  /\ response.outcome = "error"
  /\ response.fetchedNow

\* C24: when the fetch that would populate an entry fails, the call throws
\* the error of the provider and is over, nothing of it being retried; the
\* entry is left empty with hasMore true (or is gone, after a clearCache during
\* the fetch), so that the next searchNews of the key fetches again.
C24_FailureNotCached ==
  FetchFailed =>
    /\ response.error # NoError
    /\ NoneInFlight
    /\ fetched[response.key] = 0
    /\ IF response.stale THEN response.key \notin DOMAIN articleCache
       ELSE /\ response.key \in DOMAIN articleCache
            /\ articleCache[response.key] = EmptyEntry
            /\ NeedsFetch(articleCache[response.key])

\* C24 witness: the fetch failed at the upstream and left the empty entry
C24_Witness ==
  /\ FetchFailed
  /\ response.external
  /\ ~response.stale
  /\ response.upstream = 500
  /\ articleCache[response.key] = EmptyEntry

C26_NextPageHasArticles ==
  (/\ response.op = "search"
   /\ response.outcome = "ok"
   /\ ~response.stale
   /\ response.body.pagination.hasNextPage) =>
    /\ response.key \in DOMAIN articleCache
    /\ ~NeedsFetch(articleCache[response.key])
    /\ Len(SearchResult(articleCache[response.key], response.body.provider,
                        response.body.pagination.nextPage,
                        response.body.pagination.limit).articles) >= 1

\* C26 witness: page 2 of a gnews entry was served from the cache with
\* hasNextPage = true, the upstream having reported a total
C26_Witness ==
  /\ response.op = "search"
  /\ response.outcome = "ok"
  /\ ~response.fetchedNow
  /\ response.body.provider = GNEWS
  /\ response.body.pagination.hasNextPage
  /\ response.body.pagination.nextPage = 3
  /\ articleCache[response.key].totalArticles > Len(articleCache[response.key].articles)

C28_DeletedBeforeReanalysis ==
  agent.last.op = "reanalyze" =>
    /\ agent.last.llmCalled => agent.last.deleted
    /\ agent.last.deleted =>
         /\ agent.last.stored
         /\ ~\E d \in agent.store : d.id = agent.last.id
         /\ IF agent.last.outcome = "saved"
            THEN Cardinality({d \in agent.store : d.url = agent.last.url}) = 1
            ELSE ~\E d \in agent.store : d.url = agent.last.url

\* C28 witness: the LLM failed after the article was deleted, and the store
\* holds another article only
C28_Witness ==
  /\ agent.last.op = "reanalyze"
  /\ agent.last.deleted
  /\ agent.last.llmCalled
  /\ agent.last.outcome = "ExternalAPIError"
  /\ agent.store # {}
  /\ ~\E d \in agent.store : d.url = agent.last.url

\* C28 witness of the success: the article is stored again under a new id
C28_WitnessSaved ==
  /\ agent.last.op = "reanalyze"
  /\ agent.last.outcome = "saved"
  /\ \E d \in agent.store : d.url = agent.last.url /\ d.id > agent.last.id

\* the attempt that connect() has stored, or 0
Stored == agent.db.connectionPromise

\* C29: connect is single-flight.  mongoose.connect is invoked only when no
\* attempt is stored, and a connect() that finds an attempt stored, pending
\* or resolved, returns it; the stored attempt is never a rejected one; it is
\* cleared by the failure of an attempt and by disconnect(), and by nothing
\* else, and the connect() after that starts a new attempt.
C29_SingleFlight ==
  [][/\ Len(agent'.db.attempts) > Len(agent.db.attempts) =>
          /\ Stored = 0
          /\ Stored' = Len(agent'.db.attempts)
     /\ (Stored # 0 /\ agent'.db.last.op = "connect") =>
          /\ agent'.db.last.returned = Stored
          /\ Stored' = Stored
          /\ agent'.db.attempts = agent.db.attempts
     /\ Stored' # 0 => agent'.db.attempts[Stored'] \in {"pending", "resolved"}
     /\ (Stored # 0 /\ Stored' # Stored) =>
          /\ Stored' = 0
          /\ agent'.db.last.op \in {"settle", "disconnect"}
     /\ (\E a \in DOMAIN agent.db.attempts :
           /\ agent.db.attempts[a] = "pending"
           /\ agent'.db.attempts[a] = "rejected") => Stored' = 0
     /\ (agent'.db.last # agent.db.last
           /\ agent'.db.last = [op |-> "disconnect", returned |-> 0,
                                ok |-> TRUE]) => Stored' = 0]_vars

\* C29 witness: connect() returned the attempt made at construction after it
\* had resolved, and mongoose.connect was invoked once
C29_Witness ==
  /\ agent.db.last = [op |-> "connect", returned |-> 1, ok |-> TRUE]
  /\ agent.db.attempts = <<"resolved">>
  /\ agent.db.isConnected

\* C29 witness of the new attempt after a failure
C29_WitnessRetry ==
  /\ agent.db.attempts = <<"rejected", "pending">>
  /\ agent.db.last = [op |-> "connect", returned |-> 2, ok |-> TRUE]

\* C29 witness of the new attempt after a disconnect
C29_WitnessReconnect ==
  /\ agent.db.attempts = <<"closed", "resolved">>
  /\ agent.db.last = [op |-> "connect", returned |-> 2, ok |-> TRUE]
  /\ agent.db.connection = 2

\* the _retry that runs or ran last has made no more than maxRetries calls of
\* fn; it returned at the first call that succeeded, having waited once after
\* each failure before it; it threw after maxRetries failures the error of
\* the last one (undefined when maxRetries is 0), having waited between the
\* calls and not after the last
RetryBounded ==
  LET llm == agent.llm
  IN /\ llm.invoked <= llm.maxRetries
     /\ llm.pc = "waiting" => llm.invoked < llm.maxRetries
     /\ llm.pc = "returned" =>
          /\ llm.invoked >= 1
          /\ llm.lastErr = llm.invoked - 1
          /\ llm.waited = llm.invoked - 1
     /\ llm.pc = "threw" =>
          /\ llm.invoked = llm.maxRetries
          /\ llm.lastErr = llm.maxRetries
          /\ llm.waited = IF llm.maxRetries = 0 THEN 0 ELSE llm.maxRetries - 1

\* C30: _retry calls fn at most maxRetries times, returns the value of the
\* first call that succeeds, waits between two calls and not after the last,
\* throws the last error when every call failed, and comes to its end.
C30_RetryTerminates ==
  /\ []RetryBounded
  /\ (agent.llm.pc \in {"calling", "waiting"})
       ~> (agent.llm.pc \in {"returned", "threw"})

\* C30 witness: three calls failed and the third error was thrown after two
\* delays
C30_Witness ==
  /\ agent.llm.pc = "threw"
  /\ agent.llm.maxRetries = 3
  /\ agent.llm.invoked = 3
  /\ agent.llm.lastErr = 3
  /\ agent.llm.waited = 2

====
